---- MODULE Spec2Model ----
(***************************************************************************)
(* The Electrum wire-protocol client of wdk-wallet-btc                      *)
(* (src/src/electrum-client.js) as a state machine: the client's fields,    *)
(* the sockets its connect() calls open and the handlers it installs on     *)
(* them, the calls made on it, and the server behind each socket; and the  *)
(* payment engine of an account (src/src/wallet-account-btc.js): the        *)
(* sendTransaction calls made on it, each at the request it awaits; and    *)
(* the wallet manager (src/src/wallet-manager-btc.js) with the accounts it  *)
(* derives and what their sign and verify return.                          *)
(*                                                                         *)
(* JavaScript runs every handler to completion, and the continuation of an *)
(* await runs in the microtask checkpoint that follows the handler which   *)
(* settled the awaited promise, before any other socket event.  So each    *)
(* action below is one handler (or one synchronous call) together with the *)
(* continuations it releases.                                              *)
(***************************************************************************)
EXTENDS Integers, Sequences, FiniteSets, TLC

\* Bounds of the model.
MaxSockets == 2      \* connect() invocations (sockets opened) per behaviour
MaxCalls == 2        \* request()/getBalance()/... calls per behaviour
NumIds == 3          \* ids Math.random can yield: 0 .. NumIds-1 (the code: 0 .. 999999)
MaxNoise == 1        \* lines the server sends that answer no request

IdSpace == 0 .. (NumIds - 1)

\* The newline that ends a message on the wire (a byte and a character).
NL == 10

\* Bytes and characters the model tells apart.  A message is abbreviated to
\* the characters that decide what the client does with it: a digit for its
\* "id" member, E for an "error" member, a letter naming the request the
\* server answers with it, and optionally a two-byte UTF-8 character
\* (0xC3 0xA9, U+00E9) in its text.
Chr == [lead |-> 195, cont |-> 169, eacute |-> 233, repl |-> 65533,
        E |-> 69, N |-> 78, null |-> 110, junk |-> 120]
DigitChr(i) == 48 + i
TagChr(r) == 96 + r
DigitChrs == {DigitChr(i) : i \in IdSpace}
TagChrs == {TagChr(r) : r \in 0 .. MaxCalls}

\* Messages of the errors a socket can emit.
ErrCauses == {"ECONNREFUSED"}

\* Addresses handed to getBalance/getHistory/getUnspent: one that
\* address.toOutputScript converts and one for which it throws.
Addresses == {"bcrt1q-valid", "invalid-address"}
ToOutputScriptThrows(address) == address = "invalid-address"

VARIABLES
  connected,        \* #connected
  socket,           \* #socket: index into socks, 0 for null
  pendingRequests,  \* #pendingRequests: id -> the call whose {resolve, reject} it holds
  portThrows,       \* whether net/tls connect() throws synchronously for the configured port
  socks,            \* one record per connect() invocation: its socket, its promise, its buffer
  calls,            \* one record per call made on the client
  noise,            \* unsolicited lines the server has sent
  hashes,           \* what the getScriptHash(address) calls made so far returned
  sends,            \* one record per sendTransaction call made on the account
  account,          \* the account the sends are made on: its constructor's config, its fields
  seedPhrase,       \* #seedPhrase of the wallet manager
  bip32,            \* whether init() has loaded the module's bip32
  accounts,         \* the getAccount calls made so far, in order, with what they returned
  returned          \* the last sign, verify, isValidSeedPhrase or set seedPhrase call

client == <<connected, socket, pendingRequests, portThrows, socks, calls, noise>>
manager == <<account, seedPhrase, bip32, accounts, returned>>
vars == <<connected, socket, pendingRequests, portThrows, socks, calls, noise,
          hashes, sends, account, seedPhrase, bip32, accounts, returned>>

NoVal == [kind |-> "none", tag |-> 0, text |-> <<>>, cause |-> ""]

\* The state after the constructor (lines 30-43).
\* JavaScript's a || b on numbers: a unless it is falsy.
Or(a, b) == IF a # 0 THEN a ELSE b

\* new WalletAccountBtc(config) (wallet-account-btc.js lines 27-32): the
\* fee limit is 100000 || config.max_fee_limit. A config without
\* max_fee_limit is written with the limit 0, which || treats alike.
WalletAccountBtc(config) ==
  [config |-> config, max_fee_limit |-> Or(100000, config.max_fee_limit)]

\* The value of a missing argument or field that holds a string otherwise.
Missing == "<undefined>"

\* A key of the hierarchy: the mnemonic its seed comes from and its path.
NoNode == [mnemonic |-> "", path |-> ""]
\* node.publicKey.toString('hex'), node.toWIF() and the address of
\* payments.p2wpkh({ pubkey }): encodings that tell the keys apart.
PublicKeyHex(node) == [hex |-> [publicKey |-> node]]
ToWIF(node) == [wif |-> [privateKey |-> node]]
P2wpkh(node) == [bech32 |-> [hash160 |-> [publicKey |-> node]]]

\* A signature: the key that made it and the hash it is made over.
NoSig == [by |-> NoNode, over |-> ""]
\* A JavaScript value a call receives or returns: a boolean, a string,
\* undefined or null.  Of a string: the number of bytes its base64 decoding
\* yields, and the signature these bytes are, if any.
Value(type, bool, bytes, sig) ==
  [type |-> type, bool |-> bool, bytes |-> bytes, sig |-> sig]
Bool(b) == Value("boolean", b, 0, NoSig)
Str(bytes) == Value("string", FALSE, bytes, NoSig)
Undef == Value("undefined", FALSE, 0, NoSig)
\* What the fields of an account and the record of a call hold when there
\* is no account and no call.
NoAccount ==
  [path |-> "", index |-> 0, address |-> P2wpkh(NoNode),
   keyPair |-> [publicKey |-> PublicKeyHex(NoNode), privateKey |-> ToWIF(NoNode)],
   bip32 |-> NoNode]
NoReturn ==
  [op |-> "", account |-> NoAccount, arg |-> "", signature |-> Undef,
   threw |-> FALSE, ret |-> Undef]

ClientInit ==
  /\ connected = FALSE
  /\ socket = 0
  /\ pendingRequests = <<>>
  /\ portThrows \in BOOLEAN
  /\ socks = <<>>
  /\ calls = <<>>
  /\ noise = 0

Init ==
  /\ ClientInit
  /\ hashes = {}
  /\ sends = <<>>
  /\ account = WalletAccountBtc([max_fee_limit |-> 0])
  /\ seedPhrase = Missing
  /\ bip32 = FALSE
  /\ accounts = <<>>
  /\ returned = NoReturn

Sockets == 1 .. Len(socks)
Calls == 1 .. Len(calls)

----------------------------------------------------------------------------
\* Pure helpers of the client.

\* Map.set / Map.delete on the pending table.
MapSet(m, k, v) == (k :> v) @@ m
MapDelete(m, k) == [x \in (DOMAIN m) \ {k} |-> m[x]]

\* buffer.indexOf('\n'): the first position of a newline, 0 when there is none
\* (JavaScript: -1).
IndexOfNL(buffer) ==
  IF \E i \in 1 .. Len(buffer) : buffer[i] = NL
  THEN CHOOSE i \in 1 .. Len(buffer) :
         buffer[i] = NL /\ \A j \in 1 .. (i - 1) : buffer[j] # NL
  ELSE 0

\* data.toString(): a chunk is decoded as UTF-8 on its own, so a two-byte
\* character is decoded only when both its bytes are in the chunk; a lead
\* byte or a continuation byte on its own becomes U+FFFD.
RECURSIVE DataToString(_)
DataToString(data) ==
  IF data = <<>> THEN <<>>
  ELSE IF Head(data) = Chr.lead /\ Len(data) >= 2 /\ data[2] = Chr.cont
    THEN <<Chr.eacute>> \o DataToString(SubSeq(data, 3, Len(data)))
  ELSE IF Head(data) \in {Chr.lead, Chr.cont}
    THEN <<Chr.repl>> \o DataToString(Tail(data))
  ELSE <<Head(data)>> \o DataToString(Tail(data))

\* JSON.parse(line) on the abbreviated messages.  t = "syntax": JSON.parse
\* throws; t = "null": the JSON value null; t = "obj": an object, with or
\* without an id and an error member.
TextOf(line, from) == SubSeq(line, from, Len(line))
IsText(t) == t \in {<<>>, <<Chr.eacute>>, <<Chr.repl, Chr.repl>>}
JsonParse(line) ==
  LET none == [t |-> "syntax", hasId |-> FALSE, id |-> 0, error |-> FALSE,
               tag |-> 0, text |-> <<>>]
  IN
  IF line = <<Chr.null>> THEN [none EXCEPT !.t = "null"]
  ELSE IF line = <<Chr.N>> THEN [none EXCEPT !.t = "obj"]
  ELSE IF Len(line) >= 3 /\ line[1] \in DigitChrs /\ line[2] = Chr.E
          /\ line[3] \in TagChrs /\ IsText(TextOf(line, 4))
    THEN [t |-> "obj", hasId |-> TRUE, id |-> line[1] - 48, error |-> TRUE,
          tag |-> line[3] - 96, text |-> TextOf(line, 4)]
  ELSE IF Len(line) >= 2 /\ line[1] \in DigitChrs /\ line[2] \in TagChrs
          /\ IsText(TextOf(line, 3))
    THEN [t |-> "obj", hasId |-> TRUE, id |-> line[1] - 48, error |-> FALSE,
          tag |-> line[2] - 96, text |-> TextOf(line, 3)]
  ELSE none

\* What the server writes for a response: the inverse abbreviation, as bytes.
Encode(id, error, tag, utf) ==
  <<DigitChr(id)>> \o (IF error THEN <<Chr.E>> ELSE <<>>) \o <<TagChr(tag)>>
    \o (IF utf THEN <<Chr.lead, Chr.cont>> ELSE <<>>) \o <<NL>>

----------------------------------------------------------------------------
\* Records.

\* A connect() invocation (lines 45-73): the socket it created, the promise
\* it returned, the buffer setupSocket keeps for it; with the server's side:
\* the bytes in flight to the client (out), the request lines written on the
\* socket (wr) and which of them the server has answered (ans).  rcvd, seen
\* and lines record what arrived: the bytes, the decoded characters appended
\* to the buffer, and the lines the loop took out of it.
NewSock(owner) ==
  [st |-> "connecting", owner |-> owner, promise |-> "pending", cause |-> "",
   out |-> <<>>, wr |-> <<>>, ans |-> {}, buf |-> <<>>,
   rcvd |-> <<>>, seen |-> <<>>, lines |-> <<>>]

\* A call on the client.  address: the address a rejected getBalance/
\* getHistory/getUnspent was called with (the script hash of a valid one goes
\* into the request's parameters, which the client never reads).  st:
\* "connecting" while request() awaits connect(), "pending" once registered
\* and written, then "resolved" or "rejected"; id and sock: the id it
\* registered under and the socket it was written on; val: what it settled
\* with; n: how often handleResponse called its resolve or reject.
NewCall ==
  [address |-> "", st |-> "connecting", id |-> 0, sock |-> 0,
   val |-> NoVal, n |-> 0]

\* A request() that lets the error of connect() through as it is.
UnwrappedConnectError(cause) ==
  [kind |-> "", tag |-> 0, text |-> <<>>, cause |-> cause]

\* new Error(`Failed to connect before request: ${connectError.message}`), line 123.
ConnectFailure(cause) ==
  [kind |-> "Failed to connect before request: ", tag |-> 0, text |-> <<>>,
   cause |-> cause]

----------------------------------------------------------------------------
\* handleResponse (lines 98-109).

\* `response.id && this.#pendingRequests.has(response.id)`: the id 0 is falsy.
Correlates(pending, response) ==
  response.hasId /\ response.id # 0 /\ response.id \in DOMAIN pending

\* resolve(response.result) or reject(new Error(response.error.message)) of
\* call r; a promise settles once, later calls of its functions do nothing.
Settle(cs, r, response) ==
  [cs EXCEPT
     ![r].n = @ + 1,
     ![r].st = IF @ # "pending" THEN @
               ELSE IF response.error THEN "rejected" ELSE "resolved",
     ![r].val = IF cs[r].st # "pending" THEN @
                ELSE [kind |-> IF response.error THEN "error" ELSE "result",
                      tag |-> response.tag, text |-> response.text,
                      cause |-> ""]]

\* A handleResponse that leaves the entry in the table.
HandleResponseKeepsEntry(pending, cs, response) ==
  IF Correlates(pending, response)
  THEN [pending |-> pending, calls |-> Settle(cs, pending[response.id], response)]
  ELSE [pending |-> pending, calls |-> cs]

HandleResponse(pending, cs, response) ==
  IF Correlates(pending, response)
  THEN [pending |-> MapDelete(pending, response.id),
        calls |-> Settle(cs, pending[response.id], response)]
  ELSE [pending |-> pending, calls |-> cs]

\* The body of the 'data' listener's try block (lines 88-93) for one line:
\* JSON.parse throws for a malformed line, response.id throws for null; the
\* catch logs and goes on.
ProcessLine(pending, cs, line) ==
  LET response == JsonParse(line) IN
  IF response.t = "obj" THEN HandleResponse(pending, cs, response)
  ELSE [pending |-> pending, calls |-> cs]

\* A loop whose try block is around the loop instead of inside it: the
\* first line that throws ends it, and the lines after it stay in the buffer.
RECURSIVE DrainUntilThrow(_)
DrainUntilThrow(d) ==
  LET newlineIndex == IndexOfNL(d.buf) IN
  IF newlineIndex = 0 THEN d
  ELSE LET line == SubSeq(d.buf, 1, newlineIndex - 1)
           h == ProcessLine(d.pending, d.calls, line)
           next == [buf |-> SubSeq(d.buf, newlineIndex + 1, Len(d.buf)),
                    pending |-> h.pending, calls |-> h.calls,
                    lines |-> Append(d.lines, line)]
       IN IF JsonParse(line).t # "obj" THEN next ELSE DrainUntilThrow(next)

\* The while (true) loop of the 'data' listener (lines 81-94).
RECURSIVE Drain(_)
Drain(d) ==
  LET newlineIndex == IndexOfNL(d.buf) IN
  IF newlineIndex = 0 THEN d
  ELSE LET line == SubSeq(d.buf, 1, newlineIndex - 1)
           h == ProcessLine(d.pending, d.calls, line)
       IN Drain([buf |-> SubSeq(d.buf, newlineIndex + 1, Len(d.buf)),
                 pending |-> h.pending, calls |-> h.calls,
                 lines |-> Append(d.lines, line)])

----------------------------------------------------------------------------
\* connect() (lines 45-73) and the listeners it installs.

\* The Promise executor of connect(), called on behalf of `owner` (0: the
\* caller of connect(), r: the request() call r awaiting it).  When
\* net/tls connect throws, the catch block marks the client disconnected and
\* rejects; otherwise a socket is being opened and nothing else changes.
OpenSocket(owner) ==
  IF portThrows
  THEN /\ socks' = Append(socks, [NewSock(owner) EXCEPT
                      !.st = "none", !.promise = "rejected", !.cause = "EBADPORT"])
       /\ connected' = FALSE
  ELSE /\ socks' = Append(socks, NewSock(owner))
       /\ UNCHANGED connected

\* connect() called by the user of the client.
Connect ==
  /\ Len(socks) < MaxSockets
  /\ OpenSocket(0)
  /\ UNCHANGED <<socket, pendingRequests, portThrows, calls, noise>>

\* The Promise executor of request() (lines 127-137) for call r with the id
\* Math.random yielded, on the socket #socket is at that moment: the new
\* values of the pending table, the sockets and the calls.  The method and
\* the parameters are strings and numbers, which JSON.stringify serialises.
Register(pending, ss, cs, sock, r, id) ==
  [pending |-> MapSet(pending, id, r),
   socks |-> [ss EXCEPT ![sock].wr = Append(@, [id |-> id, call |-> r])],
   calls |-> [cs EXCEPT ![r].st = "pending", ![r].id = id, ![r].sock = sock]]

\* The 'connect' listener (lines 52-57) of socket s, and the continuation of
\* the request() call that awaited this connect(), if one did.
SocketConnect(s) ==
  /\ s \in Sockets
  /\ socks[s].st = "connecting"
  /\ socket' = s
  /\ connected' = TRUE
  /\ LET opened == [socks EXCEPT ![s].st = "open", ![s].promise = "resolved",
                                 ![s].buf = <<>>]
         r == socks[s].owner
     IN IF r = 0
        THEN /\ socks' = opened
             /\ UNCHANGED <<pendingRequests, calls>>
        ELSE \E id \in IdSpace :
               LET reg == Register(pendingRequests, opened, calls, s, r, id) IN
               /\ pendingRequests' = reg.pending
               /\ socks' = reg.socks
               /\ calls' = reg.calls
  /\ UNCHANGED <<portThrows, noise>>

\* An 'error' listener that opens a new connection.
SocketErrorReconnects(s, cause) ==
  /\ s \in Sockets
  /\ socks[s].st \in {"connecting", "open", "ended"}
  /\ Len(socks) < MaxSockets
  /\ connected' = FALSE
  /\ socks' = Append([socks EXCEPT
       ![s].st = "errored",
       ![s].promise = IF @ = "pending" THEN "rejected" ELSE @,
       ![s].cause = IF socks[s].promise = "pending" THEN cause ELSE @], NewSock(0))
  /\ LET r == socks[s].owner IN
     calls' = IF socks[s].promise = "pending" /\ r # 0
              THEN [calls EXCEPT ![r].st = "rejected",
                                 ![r].val = ConnectFailure(cause)]
              ELSE calls
  /\ UNCHANGED <<socket, pendingRequests, portThrows, noise>>

\* The 'error' listener (lines 59-62) of socket s: reject() settles the
\* promise of connect() only if it is still pending, and then the request()
\* call awaiting it throws the wrapped error (lines 122-124).
SocketError(s, cause) ==
  /\ s \in Sockets
  /\ socks[s].st \in {"connecting", "open", "ended"}
  /\ connected' = FALSE
  /\ socks' = [socks EXCEPT
       ![s].st = "errored",
       ![s].promise = IF @ = "pending" THEN "rejected" ELSE @,
       ![s].cause = IF socks[s].promise = "pending" THEN cause ELSE @]
  /\ LET r == socks[s].owner IN
     calls' = IF socks[s].promise = "pending" /\ r # 0
              THEN [calls EXCEPT ![r].st = "rejected",
                                 ![r].val = ConnectFailure(cause)]
              ELSE calls
  /\ UNCHANGED <<socket, pendingRequests, portThrows, noise>>

\* A 'close' listener that fails the requests in flight and empties the table.
SocketCloseRejectsPending(s) ==
  /\ s \in Sockets
  /\ socks[s].st \in {"open", "ended", "errored"}
  /\ connected' = FALSE
  /\ socks' = [socks EXCEPT ![s].st = "closed", ![s].out = <<>>, ![s].ans = {}]
  /\ pendingRequests' = <<>>
  /\ calls' = [r \in Calls |->
                 IF calls[r].st = "pending"
                 THEN [calls[r] EXCEPT !.st = "rejected",
                                       !.val = [NoVal EXCEPT !.kind = "closed"]]
                 ELSE calls[r]]
  /\ UNCHANGED <<socket, portThrows, noise>>

\* The 'close' listener (lines 64-66) of socket s.  Bytes still in flight on
\* a closed socket are never delivered, and the server answers no request
\* of a closed connection.
SocketClose(s) ==
  /\ s \in Sockets
  /\ socks[s].st \in {"open", "ended", "errored"}
  /\ connected' = FALSE
  /\ socks' = [socks EXCEPT ![s].st = "closed", ![s].out = <<>>, ![s].ans = {}]
  /\ UNCHANGED <<socket, pendingRequests, portThrows, calls, noise>>

\* The 'data' listener (lines 78-95) of socket s for a chunk of the first k
\* bytes in flight.
SocketData(s, k) ==
  /\ s \in Sockets
  /\ socks[s].st \in {"open", "ended"}
  /\ k \in 1 .. Len(socks[s].out)
  /\ LET data == SubSeq(socks[s].out, 1, k)
         d == Drain([buf |-> socks[s].buf \o DataToString(data),
                     pending |-> pendingRequests, calls |-> calls,
                     lines |-> socks[s].lines])
     IN /\ socks' = [socks EXCEPT
             ![s].out = SubSeq(@, k + 1, Len(@)),
             ![s].buf = d.buf,
             ![s].rcvd = @ \o data,
             ![s].seen = @ \o DataToString(data),
             ![s].lines = d.lines]
        /\ pendingRequests' = d.pending
        /\ calls' = d.calls
  /\ UNCHANGED <<connected, socket, portThrows, noise>>

\* A disconnect() that ends the socket and forgets to clear #connected.
DisconnectLeavesConnected ==
  /\ IF socket # 0 /\ connected
     THEN socks' = [socks EXCEPT ![socket].st = "ended"]
     ELSE UNCHANGED socks
  /\ UNCHANGED <<connected, socket, pendingRequests, portThrows, calls, noise>>

\* disconnect() (lines 111-116): end() half-closes the socket; it still
\* delivers what the server sends until it closes.
Disconnect ==
  /\ IF socket # 0 /\ connected
     THEN /\ socks' = [socks EXCEPT ![socket].st = "ended"]
          /\ connected' = FALSE
     ELSE UNCHANGED <<socks, connected>>
  /\ UNCHANGED <<socket, pendingRequests, portThrows, calls, noise>>

----------------------------------------------------------------------------
\* request() (lines 118-138) and the domain operations (lines 140-169).

\* request() of call r, just appended to cs.
Request(r, cs) ==
  IF connected
  THEN \E id \in IdSpace :
         LET reg == Register(pendingRequests, socks, cs, socket, r, id) IN
         /\ pendingRequests' = reg.pending
         /\ socks' = reg.socks
         /\ calls' = reg.calls
         /\ UNCHANGED connected
  ELSE /\ Len(socks) < MaxSockets
       /\ OpenSocket(r)
       /\ calls' = IF portThrows
                   THEN [cs EXCEPT ![r].st = "rejected",
                                   ![r].val = ConnectFailure("EBADPORT")]
                   ELSE cs
       /\ UNCHANGED pendingRequests

\* request() called by the user of the client, directly or through
\* getTransaction, broadcastTransaction or getFeeEstimate, which only pass
\* their arguments on (lines 159-169).  The method and the parameters are not
\* part of the state: the client never reads them.
RequestCall ==
  /\ Len(calls) < MaxCalls
  /\ Request(Len(calls) + 1, Append(calls, NewCall))
  /\ UNCHANGED <<socket, portThrows, noise>>

\* A getBalance/getHistory/getUnspent that calls request() before it
\* computes the script hash.
RequestBeforeScriptHash(address) ==
  /\ Len(calls) < MaxCalls
  /\ Request(Len(calls) + 1,
             Append(calls, [NewCall EXCEPT
                              !.address = IF ToOutputScriptThrows(address)
                                          THEN address ELSE ""]))
  /\ UNCHANGED <<socket, portThrows, noise>>

\* getScriptHash(address) (lines 171-175) throws when the address has no
\* output script; getBalance/getHistory/getUnspent call it before request().
ScriptHashCall(address) ==
  /\ Len(calls) < MaxCalls
  /\ IF ToOutputScriptThrows(address)
     THEN /\ calls' = Append(calls, [NewCall EXCEPT
                        !.address = address, !.st = "rejected",
                        !.val = [NoVal EXCEPT !.kind = "address"]])
          /\ UNCHANGED <<connected, pendingRequests, socks>>
     ELSE Request(Len(calls) + 1, Append(calls, NewCall))
  /\ UNCHANGED <<socket, portThrows, noise>>

GetBalance(address) == ScriptHashCall(address)
GetHistory(address) == ScriptHashCall(address)
GetUnspent(address) == ScriptHashCall(address)

----------------------------------------------------------------------------
\* getScriptHash (lines 171-175).

\* _address.toOutputScript(address, this.#network) of an address that has
\* an output script: the script of a version-0 witness program, OP_0, a
\* push of 20 bytes and the 20-byte program.
ToOutputScript(address) == <<0, 20>> \o [i \in 1 .. 20 |-> (29 * i) % 256]

\* crypto.sha256(script): a digest of 32 bytes.  The digest function itself
\* is bitcoinjs-lib's; what getScriptHash relies on, and what is kept here,
\* is that the digest is a function of the script alone and has 32 bytes
\* of any value, small ones included.
Sha256(script) ==
  [i \in 1 .. 32 |-> (script[((i - 1) % Len(script)) + 1] * 7 + 11 * i * i) % 256]

\* Buffer.from(hash).reverse()
Reverse(bytes) == [i \in 1 .. Len(bytes) |-> bytes[Len(bytes) + 1 - i]]

\* The character of a hexadecimal digit, lower case: 0-9 then a-f.
HexChr(n) == IF n < 10 THEN 48 + n ELSE 87 + n

\* A hex encoding that writes each byte without its leading zero.
RECURSIVE ToHexUnpadded(_)
ToHexUnpadded(bytes) ==
  IF bytes = <<>> THEN <<>>
  ELSE (IF bytes[1] < 16 THEN <<HexChr(bytes[1])>>
        ELSE <<HexChr(bytes[1] \div 16), HexChr(bytes[1] % 16)>>)
       \o ToHexUnpadded(Tail(bytes))

\* buffer.toString('hex'): two digits per byte, high half first.
ToHex(bytes) ==
  [i \in 1 .. 2 * Len(bytes) |->
     LET byte == bytes[(i + 1) \div 2] IN
     HexChr(IF i % 2 = 1 THEN byte \div 16 ELSE byte % 16)]

\* What one getScriptHash(address) call yields: the exception of
\* toOutputScript, or the hex string.
GetScriptHash(address) ==
  IF ToOutputScriptThrows(address)
  THEN [threw |-> TRUE, hex |-> <<>>]
  ELSE [threw |-> FALSE,
        hex |-> ToHex(Reverse(Sha256(ToOutputScript(address))))]

\* A call of the public method, as the tests make it.  It reads #network
\* and assigns no field; `hashes` keeps what the call returned.
GetScriptHashCall(address) ==
  /\ hashes' = hashes \cup {[address |-> address, got |-> GetScriptHash(address)]}
  /\ UNCHANGED <<connected, socket, pendingRequests, portThrows, socks, calls,
                 noise, sends, manager>>

----------------------------------------------------------------------------
\* The server behind socket s.

\* It answers a request line it has not answered yet, with a result or an
\* error, in any order.
ServerRespond(s, j, error, utf) ==
  /\ s \in Sockets
  /\ socks[s].st \in {"open", "ended"}
  /\ j \in (1 .. Len(socks[s].wr)) \ socks[s].ans
  /\ socks' = [socks EXCEPT
       ![s].ans = @ \cup {j},
       ![s].out = @ \o Encode(socks[s].wr[j].id, error, socks[s].wr[j].call, utf)]
  /\ UNCHANGED <<connected, socket, pendingRequests, portThrows, calls, noise>>

\* Lines that answer no request: a malformed line, the JSON value null, a
\* notification (an object without id), and a response sent a second time.
NoiseLines(s) ==
  {<<Chr.junk, NL>>, <<Chr.null, NL>>, <<Chr.N, NL>>}
    \cup {Encode(socks[s].wr[j].id, FALSE, socks[s].wr[j].call, FALSE) :
            j \in socks[s].ans}

ServerNoise(s, line) ==
  /\ s \in Sockets
  /\ socks[s].st \in {"open", "ended"}
  /\ noise < MaxNoise
  /\ line \in NoiseLines(s)
  /\ noise' = noise + 1
  /\ socks' = [socks EXCEPT ![s].out = @ \o line]
  /\ UNCHANGED <<connected, socket, pendingRequests, portThrows, calls>>

----------------------------------------------------------------------------
\* The lengths of the chunk a 'data' event of socket s can carry: any prefix
\* of the bytes in flight, or only prefixes that end with a line's newline.
AnyChunk(s) == 1 .. Len(socks[s].out)
LineChunk(s) == {k \in AnyChunk(s) : socks[s].out[k] = NL}

\* The client with all its connections.  Here the server answers requests,
\* in any order, in ASCII, and the transport delivers whole lines.
Next ==
  \/ Connect /\ UNCHANGED <<hashes, sends, manager>>
  \/ Disconnect /\ UNCHANGED <<hashes, sends, manager>>
  \/ RequestCall /\ UNCHANGED <<hashes, sends, manager>>
  \/ \E address \in Addresses : GetBalance(address) /\ UNCHANGED <<hashes, sends, manager>>
  \/ \E address \in Addresses : GetHistory(address) /\ UNCHANGED <<hashes, sends, manager>>
  \/ \E address \in Addresses : GetUnspent(address) /\ UNCHANGED <<hashes, sends, manager>>
  \/ \E s \in Sockets : SocketConnect(s) /\ UNCHANGED <<hashes, sends, manager>>
  \/ \E s \in Sockets, cause \in ErrCauses :
       SocketError(s, cause) /\ UNCHANGED <<hashes, sends, manager>>
  \/ \E s \in Sockets : SocketClose(s) /\ UNCHANGED <<hashes, sends, manager>>
  \/ \E s \in Sockets : \E k \in LineChunk(s) :
       SocketData(s, k) /\ UNCHANGED <<hashes, sends, manager>>
  \/ \E s \in Sockets, j \in 1 .. MaxCalls, error \in BOOLEAN :
       ServerRespond(s, j, error, FALSE) /\ UNCHANGED <<hashes, sends, manager>>

Spec == Init /\ [][Next]_vars

\* One connection's inbound stream.  Here the server also sends lines that
\* answer no request and text outside ASCII, and the transport cuts the
\* stream into chunks anywhere.
StreamNext ==
  \/ RequestCall /\ Len(socks') <= 1 /\ UNCHANGED <<hashes, sends, manager>>
  \/ \E address \in Addresses :
       GetBalance(address) /\ Len(socks') <= 1 /\ UNCHANGED <<hashes, sends, manager>>
  \/ \E address \in Addresses :
       GetHistory(address) /\ Len(socks') <= 1 /\ UNCHANGED <<hashes, sends, manager>>
  \/ \E address \in Addresses :
       GetUnspent(address) /\ Len(socks') <= 1 /\ UNCHANGED <<hashes, sends, manager>>
  \/ \E s \in Sockets : SocketConnect(s) /\ UNCHANGED <<hashes, sends, manager>>
  \/ \E s \in Sockets : SocketClose(s) /\ UNCHANGED <<hashes, sends, manager>>
  \/ \E s \in Sockets : \E k \in AnyChunk(s) :
       SocketData(s, k) /\ UNCHANGED <<hashes, sends, manager>>
  \/ \E s \in Sockets, j \in 1 .. MaxCalls, error \in BOOLEAN, utf \in BOOLEAN :
       ServerRespond(s, j, error, utf) /\ UNCHANGED <<hashes, sends, manager>>
  \/ \E s \in Sockets : \E line \in NoiseLines(s) :
       ServerNoise(s, line) /\ UNCHANGED <<hashes, sends, manager>>

SpecStream == Init /\ [][StreamNext]_vars

\* The client with getScriptHash called at any moment between its other
\* operations.
HashNext ==
  \/ \E address \in Addresses : GetScriptHashCall(address)
  \/ Connect /\ UNCHANGED <<hashes, sends, manager>>
  \/ Disconnect /\ UNCHANGED <<hashes, sends, manager>>
  \/ \E address \in Addresses : GetBalance(address) /\ UNCHANGED <<hashes, sends, manager>>
  \/ \E s \in Sockets : SocketConnect(s) /\ UNCHANGED <<hashes, sends, manager>>
  \/ \E s \in Sockets, cause \in ErrCauses :
       SocketError(s, cause) /\ UNCHANGED <<hashes, sends, manager>>
  \/ \E s \in Sockets : SocketClose(s) /\ UNCHANGED <<hashes, sends, manager>>
  \/ \E s \in Sockets : \E k \in LineChunk(s) :
       SocketData(s, k) /\ UNCHANGED <<hashes, sends, manager>>
  \/ \E s \in Sockets, j \in 1 .. MaxCalls, error \in BOOLEAN :
       ServerRespond(s, j, error, FALSE) /\ UNCHANGED <<hashes, sends, manager>>

SpecHash == Init /\ [][HashNext]_vars

----------------------------------------------------------------------------
\* The payment engine: WalletAccountBtc (src/src/wallet-account-btc.js).
\*
\* A sendTransaction call runs up to the request it awaits; the continuation
\* runs when the promise of that request settles.  The Electrum client is
\* seen here through the promises its methods return: a request is issued
\* when the method is called, and it resolves with the server's result or
\* rejects with an Error (the server's error, or the connection failure of
\* request()), or stays unsettled.

MaxSends == 1        \* sendTransaction calls per behaviour

DUST_LIMIT == 546
minRelayFee == 141

\* this.address, the funding and change address of the account.
AccountAddress == "bcrt1q-valid"

\* The `to` of a call: an address, or something addOutput rejects.
Recipients == {"bcrt1q-recipient", "invalid-address"}

\* The `amount` of a call, in bitcoin, written as a count of 10^-9 BTC (a
\* tenth of a satoshi): negative, at the dust limit with and without a
\* fraction of a satoshi, and above it.
Amounts == {-15, 5460, 5469, 6000, 10005}

\* The result of blockchain.estimatefee, in BTC per kilobyte, as a fraction:
\* -1 (the server has no estimate), 0, 0.00001, 0.000025 and 0.01.
FeeEstimates ==
  {[num |-> -1, den |-> 1], [num |-> 0, den |-> 1],
   [num |-> 1, den |-> 100000], [num |-> 1, den |-> 40000],
   [num |-> 1, den |-> 100]}

\* The unspent outputs the server can list for the funding address, and the
\* lists it can answer with (the result can also be absent: null).
UtxoValues == <<400, 900, 1300, 1287, 741, 300000>>
Utxo(n) == [tx_hash |-> n, tx_pos |-> 0, value |-> UtxoValues[n]]
UnspentLists ==
  {<<>>, <<Utxo(1)>>, <<Utxo(1), Utxo(2)>>, <<Utxo(3)>>, <<Utxo(4)>>, <<Utxo(5)>>,
   <<Utxo(6)>>, <<Utxo(3), Utxo(1)>>, <<Utxo(5), Utxo(2)>>}

\* The message of the Error a request of the client rejects with.
RpcErrors == {"server error", "Failed to connect before request: ECONNREFUSED"}

\* integerValue(BigNumber.ROUND_DOWN) and integerValue(BigNumber.ROUND_CEIL)
\* of the quotient a / b, b > 0: towards zero, and towards +Infinity.
RoundDown(a, b) == IF a >= 0 THEN a \div b ELSE -((-a) \div b)
RoundCeil(a, b) == -((-a) \div b)

\* A conversion to satoshis that rounds to the next satoshi above.
SatoshiRoundedUp(amount) == RoundCeil(amount, 10)

\* new BigNumber(amount).multipliedBy(100000000)
\*   .integerValue(BigNumber.ROUND_DOWN).toNumber()   (line 243):
\* 10^-9 BTC times 10^8 is a tenth of a satoshi.
Satoshi(amount) == RoundDown(amount, 10)

\* new BigNumber(feeEstimate).multipliedBy(100000)   (line 90), exactly.
FeeRate(feeEstimate) ==
  [num |-> feeEstimate.num * 100000, den |-> feeEstimate.den]

\* tx.virtualSize() of a finalized transaction with nIn P2WPKH inputs and
\* nOut outputs: it grows with both.
VirtualSize(nIn, nOut) == 11 + 68 * nIn + 31 * nOut

\* A fee without the minimum relay fee.
EstimatedFeeNoFloor(feeRate, vsize) == RoundCeil(feeRate.num * vsize, feeRate.den)

\* new BigNumber(feeRate).multipliedBy(vsize).integerValue(ROUND_CEIL), then
\* BigNumber.max(estimatedFee, minRelayFee)   (lines 207-212).
EstimatedFee(feeRate, vsize) ==
  LET estimatedFee == RoundCeil(feeRate.num * vsize, feeRate.den) IN
  IF estimatedFee > minRelayFee THEN estimatedFee ELSE minRelayFee

RECURSIVE SumValues(_)
SumValues(utxoSet) ==
  IF utxoSet = <<>> THEN 0 ELSE utxoSet[1].value + SumValues(Tail(utxoSet))

\* A transaction: its inputs (the unspent outputs it spends) and its outputs
\* in order.  tx.getId() and tx.toHex() name the transaction they are of.
NoTx == [ins |-> <<>>, outs |-> <<>>]
Undefined == [of |-> "undefined", tx |-> NoTx]
GetId(tx) == [of |-> "txid", tx |-> tx]
TxToHex(tx) == [of |-> "hex", tx |-> tx]

\* What createPsbt or #generateRawTx yields when it throws nothing.
NoThrow == ""

\* createPsbt with the change output added from the dust limit on.
CreatePsbtChangeAtDust(utxoSet, sendAmount, recipient, fee) ==
  LET change == SumValues(utxoSet) - sendAmount - fee IN
  IF ToOutputScriptThrows(recipient)
  THEN [threw |-> "has no matching Script", tx |-> NoTx, signed |-> 0]
  ELSE IF change < DUST_LIMIT /\ change < 0
  THEN [threw |-> "Insufficient balance.", tx |-> NoTx, signed |-> 0]
  ELSE [threw |-> NoThrow,
        tx |-> [ins |-> utxoSet,
                outs |-> <<[address |-> recipient, value |-> sendAmount]>> \o
                         (IF change >= DUST_LIMIT
                          THEN <<[address |-> AccountAddress, value |-> change]>>
                          ELSE <<>>)],
        signed |-> Len(utxoSet)]

\* createPsbt with the change computed before the fee is taken off.
CreatePsbtChangeIgnoresFee(utxoSet, sendAmount, recipient, fee) ==
  LET change == SumValues(utxoSet) - sendAmount IN
  IF ToOutputScriptThrows(recipient)
  THEN [threw |-> "has no matching Script", tx |-> NoTx, signed |-> 0]
  ELSE IF change <= DUST_LIMIT /\ change < 0
  THEN [threw |-> "Insufficient balance.", tx |-> NoTx, signed |-> 0]
  ELSE [threw |-> NoThrow,
        tx |-> [ins |-> utxoSet,
                outs |-> <<[address |-> recipient, value |-> sendAmount]>> \o
                         (IF change > DUST_LIMIT
                          THEN <<[address |-> AccountAddress, value |-> change]>>
                          ELSE <<>>)],
        signed |-> Len(utxoSet)]

\* createPsbt without the balance check.
CreatePsbtNoBalanceCheck(utxoSet, sendAmount, recipient, fee) ==
  LET change == SumValues(utxoSet) - sendAmount - fee IN
  IF ToOutputScriptThrows(recipient)
  THEN [threw |-> "has no matching Script", tx |-> NoTx, signed |-> 0]
  ELSE [threw |-> NoThrow,
        tx |-> [ins |-> utxoSet,
                outs |-> <<[address |-> recipient, value |-> sendAmount]>> \o
                         (IF change > DUST_LIMIT
                          THEN <<[address |-> AccountAddress, value |-> change]>>
                          ELSE <<>>)],
        signed |-> Len(utxoSet)]

\* createPsbt(fee) (lines 161-203) over the utxoSet, sendAmount and recipient
\* of its #generateRawTx: every collected output becomes an input; the
\* first output pays the recipient (addOutput throws for an address without
\* an output script); a change output to this.address follows when the
\* change exceeds the dust limit; a negative change throws; then every
\* input is signed and the transaction finalized.
CreatePsbt(utxoSet, sendAmount, recipient, fee) ==
  LET change == SumValues(utxoSet) - sendAmount - fee IN
  IF ToOutputScriptThrows(recipient)
  THEN [threw |-> "has no matching Script", tx |-> NoTx, signed |-> 0]
  ELSE IF change <= DUST_LIMIT /\ change < 0
  THEN [threw |-> "Insufficient balance.", tx |-> NoTx, signed |-> 0]
  ELSE [threw |-> NoThrow,
        tx |-> [ins |-> utxoSet,
                outs |-> <<[address |-> recipient, value |-> sendAmount]>> \o
                         (IF change > DUST_LIMIT
                          THEN <<[address |-> AccountAddress, value |-> change]>>
                          ELSE <<>>)],
        signed |-> Len(utxoSet)]

\* What #generateRawTx yields: what it threw, the fee it computed, the
\* zero-fee draft and the final transaction, how many transactions it
\* finalized and how many inputs it signed.
RawTx(threw, fee, draft, tx, psbts, signed) ==
  [threw |-> threw, fee |-> fee, draft |-> draft, tx |-> tx,
   psbts |-> psbts, signed |-> signed]

\* #generateRawTx with the dust check one satoshi lower.
GenerateRawTxBelowDust(utxoSet, sendAmount, recipient, feeRate) ==
  IF sendAmount < DUST_LIMIT
  THEN RawTx("send amount must be bigger than dust limit ", 0, NoTx, NoTx, 0, 0)
  ELSE
    LET draft == CreatePsbt(utxoSet, sendAmount, recipient, 0) IN
    IF draft.threw # NoThrow THEN RawTx(draft.threw, 0, NoTx, NoTx, 0, 0)
    ELSE
      LET estimatedFee ==
            EstimatedFee(feeRate,
                         VirtualSize(Len(draft.tx.ins), Len(draft.tx.outs)))
          final == CreatePsbt(utxoSet, sendAmount, recipient, estimatedFee)
      IN IF final.threw # NoThrow
         THEN RawTx(final.threw, estimatedFee, draft.tx, NoTx, 1, draft.signed)
         ELSE RawTx(NoThrow, estimatedFee, draft.tx, final.tx, 2,
                    draft.signed + final.signed)

\* #generateRawTx (lines 145-223): the dust check, the zero-fee draft, the
\* fee from the draft's virtual size, and the final transaction.
GenerateRawTx(utxoSet, sendAmount, recipient, feeRate) ==
  IF sendAmount <= DUST_LIMIT
  THEN RawTx("send amount must be bigger than dust limit ", 0, NoTx, NoTx, 0, 0)
  ELSE
    LET draft == CreatePsbt(utxoSet, sendAmount, recipient, 0) IN
    IF draft.threw # NoThrow THEN RawTx(draft.threw, 0, NoTx, NoTx, 0, 0)
    ELSE
      LET estimatedFee ==
            EstimatedFee(feeRate,
                         VirtualSize(Len(draft.tx.ins), Len(draft.tx.outs)))
          final == CreatePsbt(utxoSet, sendAmount, recipient, estimatedFee)
      IN IF final.threw # NoThrow
         THEN RawTx(final.threw, estimatedFee, draft.tx, NoTx, 1, draft.signed)
         ELSE RawTx(NoThrow, estimatedFee, draft.tx, final.tx, 2,
                    draft.signed + final.signed)

\* What a sendTransaction call settled with: an Error (message, the detail
\* appended to it, the amount quoted in it), a string, or an object with
\* the properties txid and hex.
NoResult ==
  [kind |-> "none", message |-> "", detail |-> "", got |-> 0,
   str |-> Undefined, txid |-> Undefined, hex |-> Undefined]
Failure(message, detail) ==
  [NoResult EXCEPT !.kind = "error", !.message = message, !.detail = detail]

\* A request issued through the client: the method, and the transaction
\* hash or the raw transaction it carries.
Rpc(method, tx_hash, hex) == [method |-> method, tx_hash |-> tx_hash, hex |-> hex]

\* A sendTransaction call.  pc: the request it awaits ("fee", "unspent",
\* "tx", "broadcast") or how it settled ("resolved", "rejected"); rpcs: the
\* requests it issued, in order; collected: the unspent outputs selected so
\* far; psbts, signed: the transactions finalized and the inputs signed;
\* fee, draft, tx: the fee computed, the zero-fee draft and the final
\* transaction; val: what the call settled with.
NewSend(to, amount) ==
  [to |-> to, amount |-> amount, satoshi |-> Satoshi(amount), pc |-> "fee",
   feeRate |-> [num |-> 0, den |-> 1], unspent |-> <<>>, collected |-> <<>>,
   rpcs |-> <<Rpc("blockchain.estimatefee", 0, Undefined)>>,
   psbts |-> 0, signed |-> 0, fee |-> 0, draft |-> NoTx, tx |-> NoTx,
   val |-> NoResult]

Sends == 1 .. Len(sends)

Reject(s, message, detail) ==
  [s EXCEPT !.pc = "rejected", !.val = Failure(message, detail)]

\* sendTransaction({ to, amount }) up to its first await (lines 242-244,
\* 86-89): the amount in satoshis, then #createTransaction asks for the fee
\* estimate of a one-block target.
SendTransaction(to, amount) ==
  /\ sends' = Append(sends, NewSend(to, amount))
  /\ UNCHANGED <<connected, socket, pendingRequests, portThrows, socks, calls,
                 noise, hashes, manager>>

\* getFeeEstimate resolved (lines 89-98, 107-110): the fee rate; the
\* comparison begun on line 96 has no consequent; then #collectUtxos asks
\* for the unspent outputs of this.address.
FeeEstimateResolved(k, feeEstimate) ==
  /\ k \in Sends /\ sends[k].pc = "fee"
  /\ sends' = [sends EXCEPT
       ![k].feeRate = FeeRate(feeEstimate),
       ![k].pc = "unspent",
       ![k].rpcs = Append(@, Rpc("blockchain.scripthash.listunspent", 0, Undefined))]
  /\ UNCHANGED <<connected, socket, pendingRequests, portThrows, socks, calls,
                 noise, hashes, manager>>

\* A #createTransaction that goes on with a fee rate of its own when the
\* estimate fails.
FeeEstimateRejectedFallsBack(k, cause) ==
  /\ k \in Sends /\ sends[k].pc = "fee"
  /\ sends' = [sends EXCEPT
       ![k].feeRate = [num |-> 1, den |-> 1],
       ![k].pc = "unspent",
       ![k].rpcs = Append(@, Rpc("blockchain.scripthash.listunspent", 0, Undefined))]
  /\ UNCHANGED <<connected, socket, pendingRequests, portThrows, socks, calls,
                 noise, hashes, manager>>

\* getFeeEstimate rejected (lines 91-94).
FeeEstimateRejected(k, cause) ==
  /\ k \in Sends /\ sends[k].pc = "fee"
  /\ sends' = [sends EXCEPT ![k] = Reject(@, "Failed to estimate fee: ", cause)]
  /\ UNCHANGED <<connected, socket, pendingRequests, portThrows, socks, calls,
                 noise, hashes, manager>>

\* A #generateRawTx that returns the transaction of its first pass.
GenerateReturnsDraft(s) ==
  LET raw == GenerateRawTx(s.collected, s.satoshi, s.to, s.feeRate)
      built == [s EXCEPT !.fee = raw.fee, !.draft = raw.draft, !.tx = raw.draft,
                         !.psbts = raw.psbts, !.signed = raw.signed]
  IN IF raw.threw # NoThrow
     THEN [Reject(built, raw.threw, "") EXCEPT
             !.val.got = IF raw.psbts = 0 /\ s.satoshi <= DUST_LIMIT
                         THEN s.satoshi ELSE 0]
     ELSE [built EXCEPT
             !.pc = "broadcast",
             !.rpcs = Append(@, Rpc("blockchain.transaction.broadcast", 0,
                                    TxToHex(raw.draft)))]

\* The rest of #createTransaction and sendTransaction once the outputs are
\* collected (lines 98-104, 244-246): #generateRawTx, and when it returns,
\* #broadcastTransaction(tx.hex) asks the client to broadcast.
Generate(s) ==
  LET raw == GenerateRawTx(s.collected, s.satoshi, s.to, s.feeRate)
      built == [s EXCEPT !.fee = raw.fee, !.draft = raw.draft, !.tx = raw.tx,
                         !.psbts = raw.psbts, !.signed = raw.signed]
  IN IF raw.threw # NoThrow
     THEN [Reject(built, raw.threw, "") EXCEPT
             !.val.got = IF raw.psbts = 0 /\ s.satoshi <= DUST_LIMIT
                         THEN s.satoshi ELSE 0]
     ELSE [built EXCEPT
             !.pc = "broadcast",
             !.rpcs = Append(@, Rpc("blockchain.transaction.broadcast", 0,
                                    TxToHex(raw.tx)))]

\* A #collectUtxos that checks only that there is a list: with an empty
\* one the loop collects nothing and #generateRawTx runs on no input.
UnspentResolvedEmptyGoesOn(k, absent, unspent) ==
  /\ k \in Sends /\ sends[k].pc = "unspent"
  /\ sends' = [sends EXCEPT ![k] =
       IF absent
       THEN Reject(@, "No unspent outputs available", "")
       ELSE IF Len(unspent) = 0
       THEN Generate(@)
       ELSE [@ EXCEPT
               !.unspent = unspent,
               !.pc = "tx",
               !.rpcs = Append(@, Rpc("blockchain.transaction.get",
                                      unspent[1].tx_hash, Undefined))]]
  /\ UNCHANGED <<connected, socket, pendingRequests, portThrows, socks, calls,
                 noise, hashes, manager>>

\* A #collectUtxos that asks for the parent transactions of all the outputs
\* of the list at once.
RECURSIVE GetTransactions(_)
GetTransactions(unspent) ==
  IF unspent = <<>> THEN <<>>
  ELSE <<Rpc("blockchain.transaction.get", unspent[1].tx_hash, Undefined)>>
         \o GetTransactions(Tail(unspent))
UnspentResolvedFetchesAll(k, absent, unspent) ==
  /\ k \in Sends /\ sends[k].pc = "unspent"
  /\ sends' = [sends EXCEPT ![k] =
       IF absent \/ Len(unspent) = 0
       THEN Reject(@, "No unspent outputs available", "")
       ELSE [@ EXCEPT
               !.unspent = unspent,
               !.pc = "tx",
               !.rpcs = @ \o GetTransactions(unspent)]]
  /\ UNCHANGED <<connected, socket, pendingRequests, portThrows, socks, calls,
                 noise, hashes, manager>>

\* getUnspent resolved (lines 110-125): no list or an empty one throws;
\* otherwise the loop asks for the parent transaction of the first output.
UnspentResolved(k, absent, unspent) ==
  /\ k \in Sends /\ sends[k].pc = "unspent"
  /\ sends' = [sends EXCEPT ![k] =
       IF absent \/ Len(unspent) = 0
       THEN Reject(@, "No unspent outputs available", "")
       ELSE [@ EXCEPT
               !.unspent = unspent,
               !.pc = "tx",
               !.rpcs = Append(@, Rpc("blockchain.transaction.get",
                                      unspent[1].tx_hash, Undefined))]]
  /\ UNCHANGED <<connected, socket, pendingRequests, portThrows, socks, calls,
                 noise, hashes, manager>>

\* getUnspent rejected (lines 111-114).
UnspentRejected(k, cause) ==
  /\ k \in Sends /\ sends[k].pc = "unspent"
  /\ sends' = [sends EXCEPT ![k] = Reject(@, "Failed to fetch UTXOs: ", cause)]
  /\ UNCHANGED <<connected, socket, pendingRequests, portThrows, socks, calls,
                 noise, hashes, manager>>

\* A loop that leaves out the outputs another call of the account has
\* collected, and fails when the list has no other.
TransactionResolvedSkipsHeld(k) ==
  /\ k \in Sends /\ sends[k].pc = "tx"
  /\ LET s == sends[k]
         Held(utxo) == \E j \in Sends \ {k} :
                         \E i \in 1 .. Len(sends[j].collected) :
                           sends[j].collected[i] = utxo
         Free(cs) == {i \in 1 .. Len(s.unspent) :
                       /\ ~Held(s.unspent[i])
                       /\ \A c \in 1 .. Len(cs) : cs[c] # s.unspent[i]}
         First(is) == CHOOSE i \in is : \A other \in is : i <= other
     IN sends' = [sends EXCEPT ![k] =
          IF Free(s.collected) = {}
          THEN Reject(s, "No unspent outputs available", "")
          ELSE LET collected == Append(s.collected, s.unspent[First(Free(s.collected))])
               IN IF SumValues(collected) >= s.satoshi \/ Free(collected) = {}
                  THEN Generate([s EXCEPT !.collected = collected])
                  ELSE [s EXCEPT
                          !.collected = collected,
                          !.rpcs = Append(@, Rpc("blockchain.transaction.get",
                                                 s.unspent[First(Free(collected))].tx_hash,
                                                 Undefined))]]
  /\ UNCHANGED <<connected, socket, pendingRequests, portThrows, socks, calls,
                 noise, hashes, manager>>

\* A loop without the break of line 134: it collects the whole list.
TransactionResolvedNoBreak(k) ==
  /\ k \in Sends /\ sends[k].pc = "tx"
  /\ LET s == sends[k]
         collected == Append(s.collected, s.unspent[Len(s.collected) + 1])
     IN sends' = [sends EXCEPT ![k] =
          IF Len(collected) = Len(s.unspent)
          THEN Generate([s EXCEPT !.collected = collected])
          ELSE [s EXCEPT
                  !.collected = collected,
                  !.rpcs = Append(@, Rpc("blockchain.transaction.get",
                                         s.unspent[Len(collected) + 1].tx_hash,
                                         Undefined))]]
  /\ UNCHANGED <<connected, socket, pendingRequests, portThrows, socks, calls,
                 noise, hashes, manager>>

\* getTransaction resolved (lines 125-142): the output is collected with
\* its parent's vout and its value added; the loop ends when the total
\* reaches the amount or the list is exhausted, and goes on with the next
\* output's parent transaction otherwise.
TransactionResolved(k) ==
  /\ k \in Sends /\ sends[k].pc = "tx"
  /\ LET s == sends[k]
         collected == Append(s.collected, s.unspent[Len(s.collected) + 1])
         totalCollected == SumValues(collected)
     IN sends' = [sends EXCEPT ![k] =
          IF totalCollected >= s.satoshi \/ Len(collected) = Len(s.unspent)
          THEN Generate([s EXCEPT !.collected = collected])
          ELSE [s EXCEPT
                  !.collected = collected,
                  !.rpcs = Append(@, Rpc("blockchain.transaction.get",
                                         s.unspent[Len(collected) + 1].tx_hash,
                                         Undefined))]]
  /\ UNCHANGED <<connected, socket, pendingRequests, portThrows, socks, calls,
                 noise, hashes, manager>>

\* A loop that asks once more for a parent transaction it failed to get.
TransactionRejectedRetries(k, cause) ==
  /\ k \in Sends /\ sends[k].pc = "tx"
  /\ LET s == sends[k]
         tx_hash == s.unspent[Len(s.collected) + 1].tx_hash
         asked == {i \in 1 .. Len(s.rpcs) :
                    s.rpcs[i] = Rpc("blockchain.transaction.get", tx_hash, Undefined)}
     IN sends' = [sends EXCEPT ![k] =
          IF Cardinality(asked) < 2
          THEN [s EXCEPT !.rpcs = Append(@, Rpc("blockchain.transaction.get",
                                                tx_hash, Undefined))]
          ELSE Reject(s, "Failed to fetch transaction: ", cause)]
  /\ UNCHANGED <<connected, socket, pendingRequests, portThrows, socks, calls,
                 noise, hashes, manager>>

\* getTransaction rejected (lines 136-139).
TransactionRejected(k, cause) ==
  /\ k \in Sends /\ sends[k].pc = "tx"
  /\ sends' = [sends EXCEPT
       ![k] = Reject(@, "Failed to fetch transaction: ", cause)]
  /\ UNCHANGED <<connected, socket, pendingRequests, portThrows, socks, calls,
                 noise, hashes, manager>>

\* The broadcast resolved (lines 227, 251): sendTransaction returns tx.txid.
BroadcastResolved(k) ==
  /\ k \in Sends /\ sends[k].pc = "broadcast"
  /\ sends' = [sends EXCEPT
       ![k].pc = "resolved",
       ![k].val = [NoResult EXCEPT !.kind = "string",
                                   !.str = GetId(sends[k].tx)]]
  /\ UNCHANGED <<connected, socket, pendingRequests, portThrows, socks, calls,
                 noise, hashes, manager>>

\* A sendTransaction that lets the error of #broadcastTransaction through.
BroadcastRejectedWithCause(k, cause) ==
  /\ k \in Sends /\ sends[k].pc = "broadcast"
  /\ sends' = [sends EXCEPT
       ![k] = Reject(@, "Failed to broadcast transaction: ", cause)]
  /\ UNCHANGED <<connected, socket, pendingRequests, portThrows, socks, calls,
                 noise, hashes, manager>>

\* The broadcast rejected (lines 228-231, 247-250): #broadcastTransaction
\* throws 'Failed to broadcast transaction: ' + err.message, which
\* sendTransaction logs and replaces.
BroadcastRejected(k, cause) ==
  /\ k \in Sends /\ sends[k].pc = "broadcast"
  /\ sends' = [sends EXCEPT ![k] = Reject(@, "failed to broadcast tx", "")]
  /\ UNCHANGED <<connected, socket, pendingRequests, portThrows, socks, calls,
                 noise, hashes, manager>>

\* The account with its sendTransaction calls; every request of a call can
\* resolve, with any result, or reject, with any cause.
SendNext ==
  \/ /\ Len(sends) < MaxSends
     /\ \E to \in Recipients, amount \in Amounts : SendTransaction(to, amount)
  \/ \E k \in Sends, feeEstimate \in FeeEstimates : FeeEstimateResolved(k, feeEstimate)
  \/ \E k \in Sends, cause \in RpcErrors : FeeEstimateRejected(k, cause)
  \/ \E k \in Sends : UnspentResolved(k, TRUE, <<>>)
  \/ \E k \in Sends, unspent \in UnspentLists : UnspentResolved(k, FALSE, unspent)
  \/ \E k \in Sends, cause \in RpcErrors : UnspentRejected(k, cause)
  \/ \E k \in Sends : TransactionResolved(k)
  \/ \E k \in Sends, cause \in RpcErrors : TransactionRejected(k, cause)
  \/ \E k \in Sends : BroadcastResolved(k)
  \/ \E k \in Sends, cause \in RpcErrors : BroadcastRejected(k, cause)

\* The account is constructed with or without a max_fee_limit of its own.
MaxFeeLimits == {0, 200}
SendInit ==
  /\ ClientInit
  /\ hashes = {}
  /\ sends = <<>>
  /\ account \in {WalletAccountBtc([max_fee_limit |-> limit]) : limit \in MaxFeeLimits}
  /\ seedPhrase = Missing
  /\ bip32 = FALSE
  /\ accounts = <<>>
  /\ returned = NoReturn

SpecSend == SendInit /\ [][SendNext]_vars

\* Two transactions spend a common output.
Conflict(tx1, tx2) ==
  \E i \in 1 .. Len(tx1.ins), j \in 1 .. Len(tx2.ins) : tx1.ins[i] = tx2.ins[j]

\* The server accepts a transaction only if no transaction it has accepted
\* spends one of its inputs.
ServerAccepts(k) ==
  \A j \in Sends \ {k} : sends[j].pc = "resolved" => ~Conflict(sends[j].tx, sends[k].tx)

\* sendTransaction calls made on the account while others are under way.
MaxConcurrentSends == 2
RaceNext ==
  \/ /\ Len(sends) < MaxConcurrentSends
     /\ \E amount \in {6000, 10005} : SendTransaction("bcrt1q-recipient", amount)
  \/ \E k \in Sends : FeeEstimateResolved(k, [num |-> 1, den |-> 100000])
  \/ \E k \in Sends, unspent \in {<<Utxo(2)>>, <<Utxo(3), Utxo(1)>>} :
       UnspentResolved(k, FALSE, unspent)
  \/ \E k \in Sends : TransactionResolved(k)
  \/ \E k \in Sends : ServerAccepts(k) /\ BroadcastResolved(k)
  \/ \E k \in Sends : BroadcastRejected(k, "server error")

SpecRace == Init /\ [][RaceNext]_vars

-----------------------------------------------------------------------------
\* The wallet manager (src/src/wallet-manager-btc.js) and the message
\* signing of the accounts it returns (wallet-account-btc.js lines 63-84).

MaxGetAccounts == 3   \* getAccount calls per behaviour

\* Seed phrases: two valid mnemonics (the one of the tests and another), a
\* phrase that is no mnemonic, the empty string and no phrase at all.
TestMnemonic ==
  "abandon abandon abandon abandon abandon abandon abandon abandon abandon abandon abandon about"
OtherMnemonic ==
  "legal winner thank year wave sausage worth useful legal winner thank yellow"
Phrases == {TestMnemonic, OtherMnemonic, "invalid mnemonic", "", Missing}
Indices == {0, 1}
Messages == {"hello", "bye", Missing}

\* bip39's validateMnemonic: whether the words and their checksum are those
\* of a mnemonic.
ValidateMnemonic(mnemonic) == mnemonic \in {TestMnemonic, OtherMnemonic}

\* !x of a string or a missing value, and of a returned value.
Falsy(phrase) == phrase \in {"", Missing}
Truthy(value) == value.type = "boolean" /\ value.bool

\* static isValidSeedPhrase(seedPhrase) (lines 81-83):
\* seedPhrase && validateMnemonic(seedPhrase), which is seedPhrase itself
\* when that is falsy.
IsValidSeedPhrase(phrase) ==
  IF phrase = Missing THEN Undef
  ELSE IF phrase = "" THEN Str(0)
  ELSE Bool(ValidateMnemonic(phrase))

\* #seedToBip32(mnemonic) (lines 152-156): the root key of the mnemonic's
\* seed.  root.derivePath(path) (line 148): the key at an absolute path.
SeedToBip32(mnemonic) == [mnemonic |-> mnemonic, path |-> "m"]
DerivePath(root, path) == [root EXCEPT !.path = path]
DeriveChild(mnemonic, path) == DerivePath(SeedToBip32(mnemonic), path)

baseDerivationPath == "m/84'/0'/0'/0"

\* A path that leaves the index out.
GetBIP84HDPathStringOfBase(index) == baseDerivationPath \o "/0"

\* #getBIP84HDPathString(index) of a number (line 133).
GetBIP84HDPathString(index) == baseDerivationPath \o "/" \o ToString(index)

\* The account getAccount(index) constructs (lines 96-119): its path,
\* address and key pair are those of the child key; its #bip32 is
\* #seedToBip32(#seedPhrase), the root key.
GetAccount(phrase, index) ==
  LET derivationPath == GetBIP84HDPathString(index)
      child == DeriveChild(phrase, derivationPath)
  IN [path |-> derivationPath,
      index |-> index,
      address |-> P2wpkh(child),
      keyPair |-> [publicKey |-> PublicKeyHex(child), privateKey |-> ToWIF(child)],
      bip32 |-> SeedToBip32(phrase)]

\* What a getAccount call comes to: null, a TypeError (bip32 is undefined
\* until init() has run), or an account.
Got(phrase, index, threw, null, ret) ==
  [seedPhrase |-> phrase, index |-> index, threw |-> threw, null |-> null, ret |-> ret]

\* init() (lines 136-138, 28-31).
InitCall ==
  /\ bip32' = TRUE
  /\ UNCHANGED <<client, hashes, sends, account, seedPhrase, accounts, returned>>

\* set seedPhrase(phrase) (lines 58-63).
SetSeedPhrase(phrase) ==
  /\ IF ~Truthy(IsValidSeedPhrase(phrase))
     THEN /\ returned' = [NoReturn EXCEPT !.op = "set seedPhrase", !.arg = phrase,
                                          !.threw = TRUE]
          /\ UNCHANGED seedPhrase
     ELSE /\ seedPhrase' = phrase
          /\ returned' = [NoReturn EXCEPT !.op = "set seedPhrase", !.arg = phrase]
  /\ UNCHANGED <<client, hashes, sends, account, bip32, accounts>>

\* A manager that hands out the next index it has not derived yet.
GetAccountCallNextIndex(index) ==
  /\ Len(accounts) < MaxGetAccounts
  /\ accounts' = Append(accounts,
       IF Falsy(seedPhrase) THEN Got(seedPhrase, index, FALSE, TRUE, NoAccount)
       ELSE IF ~bip32 THEN Got(seedPhrase, index, TRUE, FALSE, NoAccount)
       ELSE Got(seedPhrase, index, FALSE, FALSE,
                [GetAccount(seedPhrase, index + Len(accounts)) EXCEPT !.index = index]))
  /\ UNCHANGED <<client, hashes, sends, account, seedPhrase, bip32, returned>>

\* getAccount(index) (lines 91-120).
GetAccountCall(index) ==
  /\ Len(accounts) < MaxGetAccounts
  /\ accounts' = Append(accounts,
       IF Falsy(seedPhrase) THEN Got(seedPhrase, index, FALSE, TRUE, NoAccount)
       ELSE IF ~bip32 THEN Got(seedPhrase, index, TRUE, FALSE, NoAccount)
       ELSE Got(seedPhrase, index, FALSE, FALSE, GetAccount(seedPhrase, index)))
  /\ UNCHANGED <<client, hashes, sends, account, seedPhrase, bip32, returned>>

\* isValidSeedPhrase(phrase), called by the user.
IsValidSeedPhraseCall(phrase) ==
  /\ returned' = [NoReturn EXCEPT !.op = "isValidSeedPhrase", !.arg = phrase,
                                  !.ret = IsValidSeedPhrase(phrase)]
  /\ UNCHANGED <<client, hashes, sends, account, seedPhrase, bip32, accounts>>

\* crypto.sha256(Buffer.from(message)) (lines 64, 77), node.sign(hash) and
\* node.verify(hash, signature) of bip32, and toString('base64') of the 64
\* bytes of a signature (line 65).
MessageHash(message) == "sha256 of " \o message
Bip32Sign(node, hash) == [by |-> node, over |-> hash]
Bip32Verify(node, hash, sig) ==
  PublicKeyHex(sig.by) = PublicKeyHex(node) /\ sig.over = hash
ToBase64(sig) == Value("string", FALSE, 64, sig)

\* What the body of a method comes to.
Thrown == [threw |-> TRUE, ret |-> Undef]
Return(value) == [threw |-> FALSE, ret |-> value]

\* sign(message) (lines 63-66); Buffer.from(undefined) throws.
Sign(acc, message) ==
  IF message = Missing THEN Thrown
  ELSE Return(ToBase64(Bip32Sign(acc.bip32, MessageHash(message))))

\* The statements inside the try of verify (lines 77-80):
\* Buffer.from(undefined) and Buffer.from(undefined, 'base64') throw, and
\* so does the verification of a signature that is not 64 bytes long.
VerifyNoCatch(acc, message, signature) ==
  IF message = Missing \/ signature.type # "string" \/ signature.bytes # 64
  THEN Thrown
  ELSE Return(Bool(Bip32Verify(acc.bip32, MessageHash(message), signature.sig)))

\* verify(message, signature) (lines 75-84).
Verify(acc, message, signature) ==
  LET try == VerifyNoCatch(acc, message, signature)
  IN IF try.threw THEN Return(Bool(FALSE)) ELSE try

\* The accounts the getAccount calls have returned.
Accounts == {i \in 1 .. Len(accounts) : ~accounts[i].threw /\ ~accounts[i].null}

\* The signatures a caller hands to verify of an account: none, an empty
\* string, a string that decodes to 2 bytes, 64 bytes that are no
\* signature, and signatures of a message made by the account's keys.
Signatures(acc) ==
  {Undef, Str(0), Str(2), Str(64)}
    \cup {ToBase64(Bip32Sign(node, MessageHash("hello"))) :
            node \in {acc.bip32, DerivePath(acc.bip32, acc.path)}}

\* sign and verify called on the account the i-th getAccount returned.
SignCall(i, message) ==
  /\ i \in Accounts
  /\ LET got == Sign(accounts[i].ret, message)
     IN returned' = [NoReturn EXCEPT !.op = "sign", !.account = accounts[i].ret,
                                    !.arg = message, !.threw = got.threw,
                                    !.ret = got.ret]
  /\ UNCHANGED <<client, hashes, sends, account, seedPhrase, bip32, accounts>>

VerifyCall(i, message, signature) ==
  /\ i \in Accounts
  /\ LET got == Verify(accounts[i].ret, message, signature)
     IN returned' = [NoReturn EXCEPT !.op = "verify", !.account = accounts[i].ret,
                                    !.arg = message, !.signature = signature,
                                    !.threw = got.threw, !.ret = got.ret]
  /\ UNCHANGED <<client, hashes, sends, account, seedPhrase, bip32, accounts>>

\* The manager is constructed with any config.seedPhrase (line 51 stores it
\* as it is) and with a port its client can connect to.
KeysInit ==
  /\ ClientInit
  /\ ~portThrows
  /\ hashes = {}
  /\ sends = <<>>
  /\ account = WalletAccountBtc([max_fee_limit |-> 0])
  /\ seedPhrase \in Phrases
  /\ bip32 = FALSE
  /\ accounts = <<>>
  /\ returned = NoReturn

\* The manager, its accounts and their message signing.
KeysNext ==
  \/ InitCall
  \/ \E phrase \in Phrases : SetSeedPhrase(phrase)
  \/ \E index \in Indices : GetAccountCall(index)
  \/ \E phrase \in Phrases : IsValidSeedPhraseCall(phrase)
  \/ \E i \in Accounts, message \in Messages : SignCall(i, message)
  \/ \E i \in Accounts, message \in Messages :
       \E signature \in Signatures(accounts[i].ret) : VerifyCall(i, message, signature)

SpecKeys == KeysInit /\ [][KeysNext]_vars

\* The manager deriving accounts, with requests and payments made in
\* between.
DeriveNext ==
  \/ InitCall
  \/ \E phrase \in Phrases : SetSeedPhrase(phrase)
  \/ \E index \in Indices : GetAccountCall(index)
  \/ RequestCall /\ UNCHANGED <<hashes, sends, manager>>
  \/ Len(sends) < MaxSends /\ SendTransaction("bcrt1q-recipient", 6000)
  \/ \E k \in Sends : FeeEstimateRejected(k, "server error")

SpecDerive == KeysInit /\ [][DeriveNext]_vars

----------------------------------------------------------------------------
\* What a step did, read off the state before and after it.

\* The lines the 'data' listener of socket s took out of its buffer in this step.
NewLines(s) ==
  SubSeq(socks'[s].lines, Len(socks[s].lines) + 1, Len(socks'[s].lines))
DataStep(s) == s \in Sockets /\ socks'[s].rcvd # socks[s].rcvd

Settled(r) == calls[r].st \in {"resolved", "rejected"}

\* What resolve(response.result) / reject(new Error(response.error.message))
\* hands to the caller.
Completion(response) ==
  [kind |-> IF response.error THEN "error" ELSE "result",
   tag |-> response.tag, text |-> response.text, cause |-> ""]

----------------------------------------------------------------------------
\* C1.  handleResponse: when the id of a response matches an entry of the
\* pending table, the entry is removed and exactly that request is completed,
\* resolved with the result when the response carries no error and rejected
\* with the error's message otherwise; every other entry (and call) is left
\* as it was.  Stated for the 'data' events that carry one line.
C1_MatchingResponseCompletes ==
  [][\A s \in Sockets :
       (DataStep(s) /\ Len(NewLines(s)) = 1) =>
         LET response == JsonParse(NewLines(s)[1]) IN
         (response.t = "obj" /\ response.hasId
            /\ response.id \in DOMAIN pendingRequests) =>
           LET r == pendingRequests[response.id] IN
           /\ pendingRequests' = MapDelete(pendingRequests, response.id)
           /\ calls'[r].st = (IF response.error THEN "rejected" ELSE "resolved")
           /\ calls'[r].val = Completion(response)
           /\ \A q \in Calls \ {r} : calls'[q] = calls[q]]_vars

AnswerTo(r, line) ==
  LET response == JsonParse(line) IN
  response.t = "obj" /\ response.hasId /\ response.id = calls[r].id
    /\ response.tag = r

\* C2.  Whatever the number of concurrent requests and the order of the
\* responses, a request is completed only with the response the server sent
\* for it, and no request is still pending once the response to it has been
\* processed.
C2_EveryRequestGetsItsOwnResponse ==
  \A r \in Calls :
    /\ (Settled(r) /\ calls[r].val.kind \in {"result", "error"})
         => calls[r].val.tag = r
    /\ calls[r].st = "pending"
         => \A i \in 1 .. Len(socks[calls[r].sock].lines) :
              ~AnswerTo(r, socks[calls[r].sock].lines[i])

ResponseWithIdOf(r, s) ==
  \E i \in 1 .. Len(NewLines(s)) :
    LET response == JsonParse(NewLines(s)[i]) IN
    response.t = "obj" /\ response.hasId /\ response.id = calls[r].id

\* C3.  A registered request is settled only by handleResponse processing a
\* response with its id, and the entry under its id leaves the pending table
\* only then: no connection error, close, disconnect or lapse of time
\* settles it or removes the entry.
C3_SettledOnlyByItsResponse ==
  [][\A r \in Calls :
       (/\ calls[r].st = "pending"
        /\ \/ calls'[r] # calls[r]
           \/ /\ calls[r].id \in DOMAIN pendingRequests
              /\ calls[r].id \notin DOMAIN pendingRequests')
       => \E s \in Sockets : DataStep(s) /\ ResponseWithIdOf(r, s)]_vars

\* A request is still pending, and its entry still in the table, after its
\* connection has closed.
C3_Witness ==
  \E r \in Calls :
    /\ calls[r].st = "pending"
    /\ socks[calls[r].sock].st = "closed"
    /\ calls[r].id \in DOMAIN pendingRequests
    /\ ~connected

TransportDown(s) ==
  s \in Sockets /\ socks[s].st = "open" /\ socks'[s].st \in {"errored", "closed"}

\* C4.  A close or error event of an open socket only marks the client
\* disconnected: it settles no request, removes no entry, opens no
\* connection and writes no request line.  A connection is opened only by
\* connect() or by a request() call made while the client is disconnected.
C4_CloseOnlyMarksDisconnected ==
  [][/\ \A s \in Sockets :
          TransportDown(s) =>
            /\ connected' = FALSE
            /\ pendingRequests' = pendingRequests
            /\ calls' = calls
            /\ socket' = socket
            /\ Len(socks') = Len(socks)
            /\ \A t \in Sockets :
                 socks'[t].wr = socks[t].wr /\ (t # s => socks'[t] = socks[t])
     /\ Len(socks') > Len(socks) =>
          /\ Len(socks') = Len(socks) + 1
          /\ \A t \in Sockets : socks'[t] = socks[t]
          /\ \/ socks'[Len(socks')].owner = 0 /\ calls' = calls
             \/ /\ ~connected
                /\ Len(calls') = Len(calls) + 1
                /\ socks'[Len(socks')].owner = Len(calls')]_vars

\* The only connection has failed with a request in flight: the request is
\* pending, its entry in the table, and no other socket was opened.
C4_Witness ==
  /\ Len(socks) = 1
  /\ socks[1].st = "errored"
  /\ socks[1].promise = "resolved"
  /\ ~connected
  /\ \E r \in Calls :
       calls[r].st = "pending" /\ calls[r].sock = 1
         /\ calls[r].id \in DOMAIN pendingRequests

PromiseBefore(s) == IF s \in Sockets THEN socks[s].promise ELSE "pending"
ConnectResolves(s) == PromiseBefore(s) = "pending" /\ socks'[s].promise = "resolved"
ConnectRejects(s) == PromiseBefore(s) = "pending" /\ socks'[s].promise = "rejected"
TransportEvent(s) ==
  s \in Sockets /\ socks'[s].st # socks[s].st /\ socks'[s].st \in {"errored", "closed"}
Disconnected(s) == s \in Sockets /\ socks[s].st = "open" /\ socks'[s].st = "ended"

\* C5.  isConnected() is false on a new client; it becomes true when a
\* connect() resolves, and only then; it becomes false on a transport error,
\* a transport close, disconnect() or a failing connect(), and only then; a
\* connect() that fails rejects.
C5_ConnectionStateMachine ==
  /\ ~connected
  /\ [][/\ \A s \in 1 .. Len(socks') :
             /\ ConnectResolves(s) => connected' /\ socket' = s
             /\ ConnectRejects(s) => ~connected'
             /\ TransportEvent(s) => ~connected'
             /\ Disconnected(s) => ~connected'
             /\ (s \in Sockets /\ socks[s].st = "connecting"
                   /\ socks'[s].st = "errored") => ConnectRejects(s)
        /\ (~connected /\ connected') =>
             \E s \in 1 .. Len(socks') : ConnectResolves(s)
        /\ (connected /\ ~connected') =>
             \E s \in 1 .. Len(socks') :
               ConnectRejects(s) \/ TransportEvent(s) \/ Disconnected(s)]_vars

\* disconnect() was followed by a connect() that resolved: the old socket is
\* ended, the new one is the client's socket, and the client is connected.
C5_Witness ==
  \E s \in Sockets :
    /\ socks[s].st = "ended"
    /\ socket # 0 /\ socket # s
    /\ socks[socket].st = "open"
    /\ socks[socket].owner = 0
    /\ connected

WrittenBefore(t) == IF t \in Sockets THEN socks[t].wr ELSE <<>>

\* C6.  A request() call made while the client is disconnected calls
\* connect() first and registers and writes nothing yet.  If that connect()
\* fails, the call rejects with 'Failed to connect before request: ' and
\* the cause's message, no entry is registered and nothing is written; if
\* it resolves, the request is registered and written on the socket just
\* connected.  A request() call made while connected opens no connection.
C6_RequestConnectsFirst ==
  [][/\ (Len(calls') = Len(calls) + 1
           /\ calls'[Len(calls')].val.kind # "address") =>
          LET r == Len(calls') IN
          IF connected
          THEN /\ Len(socks') = Len(socks)
               /\ calls'[r].st = "pending"
               /\ calls'[r].sock = socket
          ELSE /\ Len(socks') = Len(socks) + 1
               /\ socks'[Len(socks')].owner = r
               /\ pendingRequests' = pendingRequests
               /\ \A t \in 1 .. Len(socks') : socks'[t].wr = WrittenBefore(t)
     /\ \A s \in 1 .. Len(socks') :
          LET r == socks'[s].owner IN
          r # 0 =>
            /\ ConnectRejects(s) =>
                 /\ calls'[r].st = "rejected"
                 /\ calls'[r].val =
                      [kind |-> "Failed to connect before request: ", tag |-> 0,
                       text |-> <<>>, cause |-> socks'[s].cause]
                 /\ calls'[r].sock = 0
                 /\ pendingRequests' = pendingRequests
                 /\ \A t \in 1 .. Len(socks') : socks'[t].wr = WrittenBefore(t)
            /\ ConnectResolves(s) =>
                 /\ calls'[r].st = "pending"
                 /\ calls'[r].sock = s
                 /\ calls'[r].id \in DOMAIN pendingRequests'
                 /\ pendingRequests'[calls'[r].id] = r
                 /\ socks'[s].st = "open"
                 /\ socks'[s].wr = <<[id |-> calls'[r].id, call |-> r]>>]_vars

\* A request() made while disconnected has failed with the wrapped error of
\* its connect(), and nothing was registered or written.
C6_Witness ==
  /\ pendingRequests = <<>>
  /\ \A t \in Sockets : socks[t].wr = <<>>
  /\ \E r \in Calls :
       /\ calls[r].st = "rejected"
       /\ calls[r].val.kind = "Failed to connect before request: "
       /\ calls[r].val.cause = "ECONNREFUSED"

\* C10.  getBalance, getHistory and getUnspent called with an address that
\* has no output script reject without attempting a connection, registering
\* a request or writing a request line.
C10_InvalidAddressRejectsFirst ==
  [][(Len(calls') = Len(calls) + 1
        /\ ToOutputScriptThrows(calls'[Len(calls')].address)) =>
       /\ calls'[Len(calls')].st = "rejected"
       /\ calls'[Len(calls')].val.kind = "address"
       /\ socks' = socks
       /\ pendingRequests' = pendingRequests
       /\ connected' = connected
       /\ socket' = socket]_vars

\* A call with an invalid address was rejected on a client that never
\* opened a socket.
C10_Witness ==
  /\ socks = <<>>
  /\ pendingRequests = <<>>
  /\ ~connected
  /\ \E r \in Calls :
       calls[r].st = "rejected" /\ calls[r].val.kind = "address"
         /\ ToOutputScriptThrows(calls[r].address)

----------------------------------------------------------------------------
\* Framing, stated without the loop: the lines of a character sequence are
\* the stretches between its newlines, and its rest is what follows the last.
NLPos(chars) == {i \in 1 .. Len(chars) : chars[i] = NL}
NthNL(chars, n) ==
  CHOOSE i \in NLPos(chars) : Cardinality({j \in NLPos(chars) : j <= i}) = n
LinesOf(chars) ==
  [n \in 1 .. Cardinality(NLPos(chars)) |->
     SubSeq(chars, IF n = 1 THEN 1 ELSE NthNL(chars, n - 1) + 1,
            NthNL(chars, n) - 1)]
RestOf(chars) ==
  IF NLPos(chars) = {} THEN chars
  ELSE SubSeq(chars, NthNL(chars, Cardinality(NLPos(chars))) + 1, Len(chars))

\* C7.  Framing does not depend on chunking: the lines handed on and the
\* partial line held in the buffer are those of the concatenation of the
\* bytes received, however the bytes were split into 'data' events.
C7_FramingIndependentOfChunking ==
  \A s \in Sockets :
    /\ socks[s].lines = LinesOf(DataToString(socks[s].rcvd))
    /\ socks[s].buf = RestOf(DataToString(socks[s].rcvd))

Unparseable(line) == JsonParse(line).t # "obj"

\* C8.  A 'data' event with a line that cannot be parsed as a message leaves
\* the client connected; if none of its lines can be parsed it leaves the
\* pending table and every call as they were; and every line of the stream,
\* those after the malformed one in the same chunk included, is taken out of
\* the buffer once, in order, and a response among them completes its request.
C8_MalformedLineIsDropped ==
  [][\A s \in Sockets :
       (DataStep(s) /\ \E i \in 1 .. Len(NewLines(s)) : Unparseable(NewLines(s)[i])) =>
         /\ connected' = connected
         /\ socket' = socket
         /\ socks'[s].st = socks[s].st
         /\ (\A i \in 1 .. Len(NewLines(s)) : Unparseable(NewLines(s)[i]))
              => (pendingRequests' = pendingRequests /\ calls' = calls)
         /\ socks'[s].lines = LinesOf(socks'[s].seen)
         /\ socks'[s].buf = RestOf(socks'[s].seen)
         /\ \A i \in 1 .. Len(NewLines(s)) :
              LET response == JsonParse(NewLines(s)[i]) IN
              (response.t = "obj" /\ response.hasId /\ response.id # 0
                 /\ response.id \in DOMAIN pendingRequests) =>
                /\ response.id \notin DOMAIN pendingRequests'
                /\ calls'[pendingRequests[response.id]].st # "pending"]_vars

\* A malformed line was followed by a response, which completed its request
\* on a client that is still connected.
C8_Witness ==
  \E s \in Sockets : \E i \in 1 .. (Len(socks[s].lines) - 1) :
    LET response == JsonParse(socks[s].lines[i + 1]) IN
    /\ JsonParse(socks[s].lines[i]).t = "syntax"
    /\ response.t = "obj" /\ response.hasId /\ response.id # 0
    /\ response.tag \in Calls
    /\ calls[response.tag].st = "resolved"
    /\ calls[response.tag].n = 1
    /\ connected /\ socket = s /\ socks[s].st = "open"

Unmatched(line) ==
  LET response == JsonParse(line) IN
  /\ response.t \in {"obj", "null"}
  /\ ~response.hasId \/ response.id \notin DOMAIN pendingRequests

\* C9.  A 'data' event whose messages have no id, or an id with no entry in
\* the pending table, changes nothing: no call, not the table, not the
\* connection state; and handleResponse completes a request at most once.
C9_UnmatchedMessageChangesNothing ==
  /\ [](\A r \in Calls : calls[r].n <= 1)
  /\ [][\A s \in Sockets :
          (DataStep(s) /\ \A i \in 1 .. Len(NewLines(s)) : Unmatched(NewLines(s)[i])) =>
            /\ pendingRequests' = pendingRequests
            /\ calls' = calls
            /\ connected' = connected
            /\ socket' = socket]_vars

\* A response arrived a second time, after its request had been completed:
\* the request was completed once and its id is not in the table.
C9_Witness ==
  \E s \in Sockets : \E i, j \in 1 .. Len(socks[s].lines) :
    LET response == JsonParse(socks[s].lines[i]) IN
    /\ i < j
    /\ socks[s].lines[i] = socks[s].lines[j]
    /\ response.t = "obj" /\ response.hasId /\ response.id # 0
    /\ response.tag \in Calls
    /\ Settled(response.tag)
    /\ calls[response.tag].n = 1
    /\ response.id \notin DOMAIN pendingRequests

----------------------------------------------------------------------------
\* Hexadecimal characters: 0-9 and a-f.
IsHexChr(c) == c \in (48 .. 57) \cup (97 .. 102)

\* A step in which a getScriptHash call returns.
HashStep == hashes' # hashes

----------------------------------------------------------------------------
\* The requests a sendTransaction call has issued, by method.
Issued(k, method) == {i \in 1 .. Len(sends[k].rpcs) : sends[k].rpcs[i].method = method}
Broadcasts(k) == Issued(k, "blockchain.transaction.broadcast")

\* The call handed a transaction to the client for broadcast.
HasBroadcast(k) == Broadcasts(k) # {}

\* C12.  A sendTransaction whose amount is at or below the dust limit of 546
\* satoshis builds, signs and broadcasts nothing and never succeeds: it is
\* still waiting for the fee estimate, the unspent list or a parent
\* transaction, or it has failed.
C12_DustAmountNeverBuilt ==
  \A k \in Sends :
    sends[k].satoshi <= 546 =>
      /\ sends[k].psbts = 0 /\ sends[k].signed = 0
      /\ sends[k].draft = NoTx /\ sends[k].tx = NoTx
      /\ ~HasBroadcast(k)
      /\ sends[k].pc \in {"fee", "unspent", "tx", "rejected"}

\* A send of exactly 546 satoshis, funded by an output of 1300, has failed
\* with the dust error.
C12_Witness ==
  \E k \in Sends :
    /\ sends[k].satoshi = 546
    /\ sends[k].collected = <<Utxo(3)>>
    /\ sends[k].pc = "rejected"
    /\ sends[k].val.message = "send amount must be bigger than dust limit "
    /\ sends[k].val.got = 546

\* C13.  For an amount at or below 546 satoshis, sendTransaction issues no
\* fee-estimate, unspent-list or transaction-fetch request before it fails.
C13_DustCheckedBeforeNetwork ==
  \A k \in Sends :
    sends[k].satoshi <= 546 =>
      /\ Issued(k, "blockchain.estimatefee") = {}
      /\ Issued(k, "blockchain.scripthash.listunspent") = {}
      /\ Issued(k, "blockchain.transaction.get") = {}

\* The call computed a fee: its zero-fee draft was finalized.
FeeComputed(k) == sends[k].psbts >= 1
DraftSize(k) == VirtualSize(Len(sends[k].draft.ins), Len(sends[k].draft.outs))

\* C14.  The fee a call computes is max(ceil(feeRate * size), 141), where
\* size is the virtual size of the zero-fee draft and feeRate the fee
\* estimate times 100000: it is at least 141, at least feeRate * size, and
\* the least such integer; also for zero and negative estimates.
C14_FeeFloor ==
  \A k \in Sends :
    FeeComputed(k) =>
      \E e \in FeeEstimates :
        /\ sends[k].feeRate = [num |-> 100000 * e.num, den |-> e.den]
        /\ sends[k].fee >= 141
        /\ sends[k].fee * e.den >= 100000 * e.num * DraftSize(k)
        /\ \/ sends[k].fee = 141
           \/ (sends[k].fee - 1) * e.den < 100000 * e.num * DraftSize(k)

\* A fee was computed from a negative estimate, and it is 141.
C14_Witness ==
  \E k \in Sends :
    FeeComputed(k) /\ sends[k].feeRate.num < 0 /\ sends[k].fee = 141

\* The transaction of a call that reached the broadcast, what its inputs
\* hold and what its outputs pay.
Built(k) == sends[k].pc \in {"broadcast", "resolved"} \/ HasBroadcast(k)
RECURSIVE SumOuts(_)
SumOuts(outs) == IF outs = <<>> THEN 0 ELSE outs[1].value + SumOuts(Tail(outs))
TotalInput(k) == SumValues(sends[k].tx.ins)
Leftover(k) == TotalInput(k) - sends[k].satoshi - sends[k].fee

\* C15.  The transaction sendTransaction builds has a change output, paying
\* the account's own address, exactly when totalInput - sendAmount - fee
\* exceeds 546, and that output's value is this difference; when the
\* difference is between 0 and 546 the recipient's output is the only one.
C15_ChangePolicy ==
  \A k \in Sends :
    Built(k) =>
      LET outs == sends[k].tx.outs IN
      /\ Len(outs) \in {1, 2}
      /\ Len(outs) = 2 <=> Leftover(k) > 546
      /\ Len(outs) = 2 =>
           outs[2] = [address |-> AccountAddress, value |-> Leftover(k)]
      /\ (0 <= Leftover(k) /\ Leftover(k) <= 546) => Len(outs) = 1

\* A transaction whose difference is exactly 546 has one output.
C15_Witness ==
  \E k \in Sends :
    Built(k) /\ Leftover(k) = 546 /\ Len(sends[k].tx.outs) = 1

\* C16.  For every transaction handed to broadcast, the inputs equal the
\* outputs plus the fee paid, where the fee paid is the computed fee when
\* there is a change output and the computed fee plus a leftover of at most
\* 546 otherwise; the fee paid is never negative and exceeds the computed
\* fee by at most 546.
C16_ValueConservation ==
  \A k \in Sends : \A i \in Broadcasts(k) :
    LET tx == sends[k].rpcs[i].hex.tx
        paid == SumValues(tx.ins) - SumOuts(tx.outs)
    IN /\ sends[k].rpcs[i].hex.of = "hex"
       /\ Len(tx.outs) = 2 => paid = sends[k].fee
       /\ Len(tx.outs) = 1 =>
            /\ paid >= sends[k].fee
            /\ paid - sends[k].fee <= 546
       /\ paid >= 0
       /\ paid <= sends[k].fee + 546
       /\ SumValues(tx.ins) = sends[k].satoshi + paid
            + (IF Len(tx.outs) = 2 THEN tx.outs[2].value ELSE 0)

\* A broadcast transaction without change pays more than the computed fee.
C16_Witness ==
  \E k \in Sends :
    /\ sends[k].pc = "resolved"
    /\ Len(sends[k].tx.outs) = 1
    /\ TotalInput(k) - SumOuts(sends[k].tx.outs) > sends[k].fee

\* The call has received the unspent list of the funding address.
ListReceived(k) ==
  \/ sends[k].pc \in {"tx", "broadcast", "resolved"}
  \/ /\ sends[k].pc = "rejected"
     /\ Issued(k, "blockchain.scripthash.listunspent") # {}
     /\ sends[k].val.message # "Failed to fetch UTXOs: "
Underfunded(k) == ListReceived(k) /\ sends[k].satoshi > SumValues(sends[k].unspent)

\* C17, as claimed.  If the requested amount exceeds the sum of all unspent
\* outputs of the funding address, sendTransaction fails with 'Insufficient
\* balance.' and issues no broadcast request.
C17_InsufficientFundsAsClaimed ==
  \A k \in Sends :
    Underfunded(k) =>
      /\ ~HasBroadcast(k)
      /\ sends[k].pc # "resolved"
      /\ sends[k].pc = "rejected" => sends[k].val.message = "Insufficient balance."

\* C17.  If the requested amount exceeds the sum of all unspent outputs of
\* the funding address, sendTransaction never succeeds and issues no
\* broadcast request; it fails with 'Insufficient balance.', before
\* anything is signed, when the list is not empty, every parent transaction
\* was fetched, the amount exceeds the dust limit and the recipient address
\* is valid, and with the error of the earlier step otherwise.
C17_InsufficientFunds ==
  \A k \in Sends :
    Underfunded(k) =>
      /\ ~HasBroadcast(k)
      /\ sends[k].pc \in {"tx", "rejected"}
      /\ sends[k].pc = "rejected" =>
           LET s == sends[k] IN
           IF s.unspent = <<>>
           THEN s.val.message = "No unspent outputs available"
           ELSE IF Len(s.collected) < Len(s.unspent)
           THEN s.val.message = "Failed to fetch transaction: "
           ELSE IF s.satoshi <= 546
           THEN s.val.message = "send amount must be bigger than dust limit "
           ELSE IF ToOutputScriptThrows(s.to)
           THEN s.val.message = "has no matching Script"
           ELSE s.val.message = "Insufficient balance." /\ s.signed = 0

\* A send of 600 satoshis funded by a single output of 400 has failed with
\* 'Insufficient balance.'.
C17_Witness ==
  \E k \in Sends :
    /\ sends[k].satoshi = 600
    /\ sends[k].unspent = <<Utxo(1)>>
    /\ sends[k].pc = "rejected"
    /\ sends[k].val.message = "Insufficient balance."

C19_ReturnsTxidAndHex ==
  \A k \in Sends :
    sends[k].pc = "resolved" =>
      /\ sends[k].val.kind = "object"
      /\ sends[k].val.txid = GetId(sends[k].tx)
      /\ sends[k].val.hex = TxToHex(sends[k].tx)

\* C20.  When the broadcast request fails, whatever the cause, the call
\* rejects with the one error 'failed to broadcast tx', which carries
\* nothing of the cause.
C20_BroadcastFailureIsGeneric ==
  [][\A k \in Sends :
       (sends[k].pc = "broadcast" /\ sends'[k].pc = "rejected") =>
         sends'[k].val = [kind |-> "error", message |-> "failed to broadcast tx",
                          detail |-> "", got |-> 0, str |-> Undefined,
                          txid |-> Undefined, hex |-> Undefined]]_vars

\* A call whose broadcast was issued has been rejected.
C20_Witness ==
  \E k \in Sends :
    /\ HasBroadcast(k)
    /\ sends[k].pc = "rejected"
    /\ sends[k].val.message = "failed to broadcast tx"

\* C21.  A call waiting for the fee estimate either goes on with the rate
\* the server's estimate gives, or fails with 'Failed to estimate fee: '
\* followed by the cause, with nothing else of the call changed; a call that
\* failed so has issued the fee-estimate request only, has built nothing,
\* and stays as it is.
C21_FeeEstimateFailureIsFatal ==
  [][\A k \in Sends :
       /\ (sends[k].pc = "fee" /\ sends'[k] # sends[k]) =>
            \/ /\ sends'[k].pc = "unspent"
               /\ \E feeEstimate \in FeeEstimates :
                    sends'[k].feeRate = FeeRate(feeEstimate)
            \/ \E cause \in RpcErrors :
                 sends'[k] = [sends[k] EXCEPT
                                !.pc = "rejected",
                                !.val = Failure("Failed to estimate fee: ", cause)]
       /\ (sends[k].pc = "rejected" /\ sends[k].val.message = "Failed to estimate fee: ") =>
            /\ sends[k].rpcs = <<Rpc("blockchain.estimatefee", 0, Undefined)>>
            /\ sends[k].psbts = 0 /\ sends[k].signed = 0
            /\ sends'[k] = sends[k]]_vars

\* A call has failed on its fee estimate, with the cause in the error.
C21_Witness ==
  \E k \in Sends :
    /\ sends[k].pc = "rejected"
    /\ sends[k].val.message = "Failed to estimate fee: "
    /\ sends[k].val.detail = "Failed to connect before request: ECONNREFUSED"

\* C22.  A call whose unspent list came back empty or absent has failed with
\* 'No unspent outputs available': it asked for no parent transaction,
\* built and signed nothing, and issued no broadcast.
C22_NoUnspentOutputs ==
  \A k \in Sends :
    (ListReceived(k) /\ sends[k].unspent = <<>>) =>
      /\ sends[k].pc = "rejected"
      /\ sends[k].val.message = "No unspent outputs available"
      /\ Issued(k, "blockchain.transaction.get") = {}
      /\ sends[k].psbts = 0 /\ sends[k].signed = 0
      /\ ~HasBroadcast(k)

\* A call has received no unspent output and failed on it.
C22_Witness ==
  \E k \in Sends :
    /\ Issued(k, "blockchain.scripthash.listunspent") # {}
    /\ sends[k].unspent = <<>>
    /\ sends[k].val.message = "No unspent outputs available"

\* The limit the account is meant to apply, and the fee a built transaction
\* pays: what its inputs hold beyond what its outputs pay.
MaxFeeLimitMeant ==
  IF account.config.max_fee_limit # 0 THEN account.config.max_fee_limit ELSE 100000
PaidFee(k) == SumValues(sends[k].tx.ins) - SumOuts(sends[k].tx.outs)

\* C28.  The fee of a transaction a call has handed over for broadcast is at
\* most the account's max fee limit: config.max_fee_limit when the account
\* was constructed with one, 100000 satoshis otherwise.
C28_FeeWithinLimit ==
  \A k \in Sends : HasBroadcast(k) => PaidFee(k) <= MaxFeeLimitMeant

\* The selection of a call is over: #collectUtxos has returned.
Selected(k) ==
  \/ sends[k].pc \in {"broadcast", "resolved"}
  \/ /\ sends[k].pc = "rejected"
     /\ sends[k].val.message \notin
          {"Failed to estimate fee: ", "Failed to fetch UTXOs: ",
           "No unspent outputs available", "Failed to fetch transaction: "}

\* C30.  The outputs a call collects are a prefix of the list the server
\* returned, in the server's order, and no shorter non-empty prefix sums to
\* the requested amount; once the selection is over they sum to at least the
\* amount or are the whole list (the fee is not counted), and they are the
\* inputs, in this order, of the transaction built.
C30_FirstFitSelection ==
  \A k \in Sends :
    LET s == sends[k]
        n == Len(s.collected)
    IN /\ n <= Len(s.unspent)
       /\ s.collected = SubSeq(s.unspent, 1, n)
       /\ \A j \in 1 .. n - 1 : SumValues(SubSeq(s.unspent, 1, j)) < s.satoshi
       /\ Selected(k) =>
            /\ n >= 1
            /\ SumValues(s.collected) >= s.satoshi \/ s.collected = s.unspent
       /\ Built(k) => s.tx.ins = s.collected

\* A call has built and sent its transaction from the first output alone of
\* a list of two, the first covering the amount.
C30_Witness ==
  \E k \in Sends :
    /\ sends[k].unspent = <<Utxo(3), Utxo(1)>>
    /\ sends[k].collected = <<Utxo(3)>>
    /\ sends[k].satoshi = 1000
    /\ sends[k].tx.ins = <<Utxo(3)>>
    /\ sends[k].pc = "resolved"

\* The request of call r is in flight: registered and written, and no
\* response to it processed yet.
InFlight(r) ==
  /\ calls[r].st = "pending"
  /\ \A i \in 1 .. Len(socks[calls[r].sock].lines) :
       ~AnswerTo(r, socks[calls[r].sock].lines[i])

\* C29.  Every request in flight owns the entry of the pending table under
\* its id: registering another request has not replaced or removed it (so
\* that no two requests in flight share an id).
C29_InFlightRequestsOwnTheirEntry ==
  \A r \in Calls :
    InFlight(r) =>
      /\ calls[r].id \in DOMAIN pendingRequests
      /\ pendingRequests[calls[r].id] = r

-----------------------------------------------------------------------------
\* A signature argument that is no signature at all: not a string, not 64
\* bytes once decoded, or 64 bytes no key has made.
Malformed(signature) ==
  signature.type # "string" \/ signature.bytes # 64 \/ signature.sig = NoSig

\* C23.  verify never throws and returns a boolean, and the boolean is false
\* for every malformed signature.
C23_VerifyNeverThrows ==
  returned.op = "verify" =>
    /\ ~returned.threw
    /\ returned.ret.type = "boolean"
    /\ Malformed(returned.signature) => returned.ret = Bool(FALSE)

\* verify was called without a signature, and with one that is too short.
C23_Witness ==
  /\ returned.op = "verify"
  /\ returned.signature \in {Undef, Str(2)}
  /\ returned.arg = "hello"
  /\ returned.ret = Bool(FALSE)

\* C24.  The signature sign returns is made over the SHA-256 of the message
\* with the account's own private key, so that it is valid under
\* keyPair.publicKey; and verify of the same account returns true for the
\* message and the signature sign returns for it.
C24_SignsWithTheAccountsKey ==
  /\ (returned.op = "sign" /\ ~returned.threw) =>
       /\ returned.ret.type = "string"
       /\ PublicKeyHex(returned.ret.sig.by) = returned.account.keyPair.publicKey
       /\ returned.ret.sig.over = MessageHash(returned.arg)
  /\ (returned.op = "verify" /\ returned.arg # Missing
        /\ returned.signature = Sign(returned.account, returned.arg).ret) =>
       returned.ret = Bool(TRUE)

\* The path of the account at an index.
PathOf(index) == IF index = 0 THEN "m/84'/0'/0'/0/0" ELSE "m/84'/0'/0'/0/1"

\* C25.  Two getAccount calls made with the same seed phrase and the same
\* index return the same path, address, public key and private key,
\* whatever was called in between; the path is m/84'/0'/0'/0/index.
C25_DerivationIsDeterministic ==
  \A i \in Accounts :
    /\ accounts[i].ret.path = PathOf(accounts[i].index)
    /\ accounts[i].ret.index = accounts[i].index
    /\ \A j \in Accounts :
         (accounts[j].seedPhrase = accounts[i].seedPhrase
            /\ accounts[j].index = accounts[i].index) =>
           accounts[j].ret = accounts[i].ret

\* An account was derived twice from the same seed phrase, the manager
\* holding another phrase and deriving from it in between, with a request
\* and a payment made on the way.
C25_Witness ==
  /\ Len(accounts) = 3
  /\ {1, 2, 3} \subseteq Accounts
  /\ accounts[1].seedPhrase = accounts[3].seedPhrase
  /\ accounts[1].index = accounts[3].index
  /\ accounts[2].seedPhrase # accounts[1].seedPhrase
  /\ calls # <<>>
  /\ sends # <<>>

\* C26.  The accounts at index 0 and at index 1 of the same seed phrase
\* differ in address, public key and private key.
C26_DerivationIsUnique ==
  \A i, j \in Accounts :
    (accounts[i].seedPhrase = accounts[j].seedPhrase
       /\ accounts[i].index = 0 /\ accounts[j].index = 1) =>
      /\ accounts[i].ret.address # accounts[j].ret.address
      /\ accounts[i].ret.keyPair.publicKey # accounts[j].ret.keyPair.publicKey
      /\ accounts[i].ret.keyPair.privateKey # accounts[j].ret.keyPair.privateKey

\* The accounts at index 0 and 1 of the mnemonic of the tests were derived.
C26_Witness ==
  \E i, j \in Accounts :
    /\ accounts[i].seedPhrase = TestMnemonic /\ accounts[j].seedPhrase = TestMnemonic
    /\ accounts[i].index = 0 /\ accounts[j].index = 1

\* C27.  isValidSeedPhrase never throws and returns a boolean: true for a
\* valid mnemonic, false for anything else, the empty string and a missing
\* argument included.
C27_IsValidSeedPhraseReturnsBoolean ==
  returned.op = "isValidSeedPhrase" =>
    /\ ~returned.threw
    /\ returned.ret = Bool(ValidateMnemonic(returned.arg))

-----------------------------------------------------------------------------
\* C31.  A call that has failed with the insufficient-balance error has
\* signed no input: the error is raised before any signing of the call.
C31_InsufficientBeforeSigning ==
  \A k \in Sends :
    (sends[k].pc = "rejected" /\ sends[k].val.message = "Insufficient balance.") =>
      sends[k].signed = 0

\* The parent transactions a call has asked for, in the order of the requests.
Fetches(k) ==
  LET get == SelectSeq(sends[k].rpcs, LAMBDA rpc : rpc.method = "blockchain.transaction.get")
  IN [i \in 1 .. Len(get) |-> get[i].tx_hash]

\* C32.  A call issues at most one fee-estimate request, one unspent-list
\* request, one request per parent transaction of a listed output and one
\* broadcast request, and a call that has failed issues no request any more.
C32_NoRetries ==
  /\ [](\A k \in Sends :
          /\ Cardinality(Issued(k, "blockchain.estimatefee")) <= 1
          /\ Cardinality(Issued(k, "blockchain.scripthash.listunspent")) <= 1
          /\ Cardinality(Broadcasts(k)) <= 1
          /\ Len(Fetches(k)) <= Len(sends[k].unspent)
          /\ \A i, j \in 1 .. Len(Fetches(k)) :
               Fetches(k)[i] = Fetches(k)[j] => i = j)
  /\ [][\A k \in Sends :
          sends[k].pc = "rejected" => sends'[k].rpcs = sends[k].rpcs]_vars

\* A call has failed on the second parent transaction of its list, having
\* asked once for the fee, once for the list and once for each of the two.
C32_Witness ==
  \E k \in Sends :
    /\ sends[k].pc = "rejected"
    /\ sends[k].val.message = "Failed to fetch transaction: "
    /\ Len(sends[k].rpcs) = 4
    /\ Len(Fetches(k)) = 2

\* The transaction hashes of a list of outputs.
TxHashes(utxos) == [i \in 1 .. Len(utxos) |-> utxos[i].tx_hash]

\* C33.  The parent transactions a call has asked for are those of the
\* outputs it has collected, in the order of the server's list, and of at
\* most one more, the one it is waiting for or failed on: a fetch is issued
\* only when the one before it has completed.  Once the selection is over
\* there are as many fetches as inputs.  A call whose fetch fails ends with
\* 'Failed to fetch transaction: ' and the cause, nothing more collected.
C33_SequentialResolution ==
  /\ [](\A k \in Sends :
          LET s == sends[k]
              n == Len(s.collected)
              waiting == s.pc = "tx"
                           \/ (s.pc = "rejected"
                                 /\ s.val.message = "Failed to fetch transaction: ")
          IN /\ Fetches(k) = TxHashes(SubSeq(s.unspent, 1, IF waiting THEN n + 1 ELSE n))
             /\ Selected(k) => Len(Fetches(k)) = n
             /\ Built(k) => Len(Fetches(k)) = Len(s.tx.ins))
  /\ [][\A k \in Sends :
          (sends[k].pc = "tx" /\ sends'[k].pc = "rejected"
             /\ sends'[k].collected = sends[k].collected) =>
            \E cause \in RpcErrors :
              sends'[k] = Reject(sends[k], "Failed to fetch transaction: ", cause)]_vars

\* A call has built its transaction from the two outputs of its list, whose
\* parent transactions it fetched one after the other.
C33_Witness ==
  \E k \in Sends :
    /\ Built(k)
    /\ sends[k].unspent = <<Utxo(1), Utxo(2)>>
    /\ Fetches(k) = <<1, 2>>
    /\ Len(sends[k].tx.ins) = 2

\* The outputs listed for the funding address cover the amount and the fee
\* of a transaction that spends them all and pays a change.
Sufficient(k) ==
  SumValues(sends[k].unspent) >=
    sends[k].satoshi
      + EstimatedFee(sends[k].feeRate, VirtualSize(Len(sends[k].unspent), 2))

\* C38.  A call for an amount above the dust limit whose listed outputs
\* cover the amount and the fee of spending them does not fail with
\* 'Insufficient balance.'.
C38_SufficientFundsAreSpendable ==
  \A k \in Sends :
    (ListReceived(k) /\ sends[k].satoshi > DUST_LIMIT /\ Sufficient(k)) =>
      sends[k].val.message # "Insufficient balance."

C34_ConcurrentSendsOverlap ==
  \A j, k \in Sends :
    j # k =>
      /\ (Selected(j) /\ Selected(k)
            /\ sends[j].unspent = sends[k].unspent
            /\ sends[j].satoshi = sends[k].satoshi) =>
           sends[j].collected = sends[k].collected
      /\ (sends[j].pc = "resolved" /\ sends[k].pc = "resolved") =>
           ~Conflict(sends[j].tx, sends[k].tx)

\* Two calls have handed over transactions that spend the same output: one
\* was accepted and the other has failed on its broadcast.
C34_Witness ==
  \E j, k \in Sends :
    /\ j # k
    /\ HasBroadcast(j) /\ HasBroadcast(k)
    /\ Conflict(sends[j].tx, sends[k].tx)
    /\ sends[j].pc = "resolved"
    /\ sends[k].pc = "rejected" /\ sends[k].val.message = "failed to broadcast tx"

-----------------------------------------------------------------------------
\* The sockets of the client that are open or being opened.
Live == {s \in Sockets : socks[s].st \in {"connecting", "open"}}

\* C35.  At most one socket of the client is open or being opened at any
\* time, and a request line is written to that socket only.
C35_SingleSocket ==
  /\ [](Cardinality(Live) <= 1)
  /\ [][\A s \in Sockets : socks'[s].wr # socks[s].wr => Live = {s}]_vars

\* C36.  Whenever the socket connected last is open, disconnect() not
\* having ended it, the client is connected, whatever the sockets opened
\* before or after it have emitted.
C36_SupersededSocketEvents ==
  (socket # 0 /\ socks[socket].st = "open") => connected

\* C37.  A request that owns the entry of the pending table under its id is
\* completed, and the entry removed, when the response with its id is
\* processed, whatever the id: no such request is still pending with the
\* response to it among the lines processed.
C37_EveryIdCorrelates ==
  \A r \in Calls :
    (calls[r].st = "pending"
       /\ calls[r].id \in DOMAIN pendingRequests
       /\ pendingRequests[calls[r].id] = r) =>
      \A i \in 1 .. Len(socks[calls[r].sock].lines) :
        ~AnswerTo(r, socks[calls[r].sock].lines[i])

-----------------------------------------------------------------------------
\* C40.  The seed phrase the manager stores is unset or a valid mnemonic;
\* an assignment of an invalid phrase throws and leaves it as it was; and a
\* getAccount call returns null exactly when no phrase is stored.
C40_StoredSeedPhraseIsValid ==
  /\ [](/\ seedPhrase = Missing \/ ValidateMnemonic(seedPhrase)
        /\ (returned.op = "set seedPhrase" /\ ~ValidateMnemonic(returned.arg)) =>
             returned.threw
        /\ \A i \in 1 .. Len(accounts) :
             accounts[i].null <=> accounts[i].seedPhrase = Missing)
  /\ [][(returned'.op = "set seedPhrase" /\ returned'.threw) =>
          seedPhrase' = seedPhrase]_vars
====
